---- MODULE Spec2Model ----
(***************************************************************************)
(* The balance / settlement engine of the file-backed expense tracker      *)
(* (src/app.js, calculateBalances and calculateSettlements).               *)
(*                                                                         *)
(* Money.  The code computes in JavaScript doubles.  Every quantity that   *)
(* occurs here is a sum of amounts (whole cents) and of shares             *)
(* amount / |splitBetween|, so it is a whole multiple of 1/Scale cent,     *)
(* where Scale is the least common multiple of the possible split sizes.   *)
(* The model counts in that unit ("ticks"): one cent is Scale ticks, the   *)
(* 0.01 threshold of the code is Cent = Scale ticks, and the arithmetic is *)
(* exact.  The doubles' rounding error (about 1e-16 relative) is left out. *)
(***************************************************************************)
EXTENDS Integers, Sequences, FiniteSets, TLC

VARIABLES members, expenses, balances, debtors, creditors, i, j, settlements, pc,
          app, screen, modal, splitOptions, io, toast,
          tripName, currency, currentTripFileName, files,
          loggedInPhone, currentTrip, currentTripId, currentUserIsAdmin,
          pendingTripId, tripActions, requests

\* The engine: appData.trip.members, appData.expenses and the locals of
\* calculateSettlements.
engineVars == <<balances, debtors, creditors, i, j, settlements, pc>>

\* The page: which of the programs runs, the screen and the modal shown, the
\* options of the expense form, what the last step of the file-backed app did
\* to the trip file, and the toast the last step showed (a toast hides itself
\* after three seconds: before the next step, here).
pageVars == <<app, screen, modal, splitOptions, io, toast>>

\* The file-backed app (src/app.js): appData.trip.name, appData.trip.currency,
\* the trip file that is open, and the trip files of the folder.
fileVars == <<tripName, currency, currentTripFileName, files>>

\* The phone/PIN client (src/static/app.js): its globals, whether the trips
\* section (elements.tripActions) is shown rather than the login section,
\* and its requests in flight.
clientVars == <<loggedInPhone, currentTrip, currentTripId, currentUserIsAdmin,
                pendingTripId, tripActions, requests>>

vars == <<members, expenses, balances, debtors, creditors, i, j, settlements, pc,
          app, screen, modal, splitOptions, io, toast,
          tripName, currency, currentTripFileName, files,
          loggedInPhone, currentTrip, currentTripId, currentUserIsAdmin,
          pendingTripId, tripActions, requests>>

\* null
Null == "null"

\* The currency symbol appData starts with (the rupee sign of the source).
DefaultCurrency == "Rs"

\* The page before anything is opened, typed or sent.
PageIdle ==
    /\ screen = "selector"
    /\ modal = "none"
    /\ splitOptions = <<>>
    /\ io = "none"
    /\ toast = "none"
    /\ tripName = ""
    /\ currency = DefaultCurrency
    /\ currentTripFileName = Null
    /\ files = {}
    /\ loggedInPhone = Null
    /\ currentTrip = Null
    /\ currentTripId = Null
    /\ currentUserIsAdmin = FALSE
    /\ pendingTripId = Null
    /\ tripActions = FALSE
    /\ requests = {}

\* The engine on its own: no handler runs.
EngineOnly == app = "engine" /\ PageIdle

(***************************************************************************)
(* Bounds of the model.                                                    *)
(***************************************************************************)
MaxMembers == 4
MaxExpenses == 2

\* The names a trip's members are taken from, in order.
Roster == <<"Alice", "Bob", "Carol", "Dave", "Eve", "Finn", "Gus", "Hal">>

\* A name that is in no trip: a stale paidBy / splitBetween entry of a trip file.
Foreign == "Zed"

\* Expense amounts, in cents: 0.03, 0.04, 0.06, 1.00, 90.00, 100.00 and 1000.00.
AmountsInCents == {3, 4, 6, 100, 9000, 10000, 100000}

Min(a, b) == IF a <= b THEN a ELSE b

RECURSIVE Gcd(_, _)
Gcd(a, b) == IF b = 0 THEN a ELSE Gcd(b, a % b)

RECURSIVE LcmUpTo(_)
LcmUpTo(n) == IF n <= 1 THEN 1 ELSE LET l == LcmUpTo(n - 1) IN (l * n) \div Gcd(l, n)

\* Ticks per cent: every share amount / k, 1 <= k <= MaxMembers + 1, is whole.
Scale == LcmUpTo(MaxMembers + 1)

\* The code's 0.01, in ticks.
Cent == Scale

Range(s) == {s[k] : k \in 1..Len(s)}

(***************************************************************************)
(* calculateBalances, src/app.js:773-796.                                  *)
(***************************************************************************)

\* Only the first of splitBetween debited (a return in place of the forEach).
DebitSharesFirstOnly(bal, split, splitAmount) ==
    IF split = <<>> THEN bal
    ELSE IF Head(split) \in DOMAIN bal
         THEN [bal EXCEPT ![Head(split)] = @ - splitAmount]
         ELSE bal

\* expense.splitBetween.forEach(person => { if (balances[person] !== undefined)
\*     balances[person] -= splitAmount; })
RECURSIVE DebitShares(_, _, _)
DebitShares(bal, split, splitAmount) ==
    IF split = <<>> THEN bal
    ELSE LET person == Head(split)
             b1 == IF person \in DOMAIN bal
                   THEN [bal EXCEPT ![person] = @ - splitAmount]
                   ELSE bal
         IN DebitShares(b1, Tail(split), splitAmount)

\* The payer credited the amount less the own share, and debited the share again.
ApplyExpensePayerNetOfShare(bal, expense) ==
    LET splitAmount == expense.amount \div Len(expense.splitBetween)
        b1 == IF expense.paidBy \in DOMAIN bal
              THEN [bal EXCEPT ![expense.paidBy] = @ + expense.amount - splitAmount]
              ELSE bal
    IN DebitShares(b1, expense.splitBetween, splitAmount)

\* The body of expenses.forEach for one expense.
ApplyExpense(bal, expense) ==
    LET splitAmount == expense.amount \div Len(expense.splitBetween)
        b1 == IF expense.paidBy \in DOMAIN bal
              THEN [bal EXCEPT ![expense.paidBy] = @ + expense.amount]
              ELSE bal
    IN DebitShares(b1, expense.splitBetween, splitAmount)

\* The mapping set back to zero for every expense, so that only the last counts.
RECURSIVE FoldExpensesReset(_, _)
FoldExpensesReset(bal, exps) ==
    IF exps = <<>> THEN bal
    ELSE FoldExpensesReset(ApplyExpense([m \in DOMAIN bal |-> 0], Head(exps)), Tail(exps))

RECURSIVE FoldExpenses(_, _)
FoldExpenses(bal, exps) ==
    IF exps = <<>> THEN bal
    ELSE FoldExpenses(ApplyExpense(bal, Head(exps)), Tail(exps))

\* The loop over the members run one index too far: a key "undefined".
calculateBalancesOffByOne(ms, exps) ==
    FoldExpenses([m \in Range(ms) \cup {"undefined"} |-> 0], exps)

calculateBalances(ms, exps) ==
    FoldExpenses([m \in Range(ms) |-> 0], exps)

(***************************************************************************)
(* calculateSettlements, src/app.js:798-839.                               *)
(***************************************************************************)

\* The balances listed against the names in the opposite order.
EntriesValuesReversed(ms, bal) ==
    [k \in 1..Len(ms) |-> [name |-> ms[k], balance |-> bal[ms[Len(ms) + 1 - k]]]]

\* Object.entries(balances): the keys in insertion order, which is the order
\* of trip.members.
Entries(ms, bal) == [k \in 1..Len(ms) |-> [name |-> ms[k], balance |-> bal[ms[k]]]]

\* Math.abs left out: a debtor's amount stays negative.
RECURSIVE PartitionDebtorsNoAbs(_)
PartitionDebtorsNoAbs(entries) ==
    IF entries = <<>> THEN <<>>
    ELSE LET e == Head(entries)
         IN IF e.balance < -Cent
            THEN <<[name |-> e.name, amount |-> e.balance]>> \o PartitionDebtorsNoAbs(Tail(entries))
            ELSE PartitionDebtorsNoAbs(Tail(entries))

RECURSIVE PartitionDebtors(_)
PartitionDebtors(entries) ==
    IF entries = <<>> THEN <<>>
    ELSE LET e == Head(entries)
         IN IF e.balance < -Cent
            THEN <<[name |-> e.name, amount |-> -e.balance]>> \o PartitionDebtors(Tail(entries))
            ELSE PartitionDebtors(Tail(entries))

\* A separate test of Math.abs(balance) > 0.01 instead of the else branch.
RECURSIVE PartitionCreditorsAbs(_)
PartitionCreditorsAbs(entries) ==
    IF entries = <<>> THEN <<>>
    ELSE LET e == Head(entries)
             a == IF e.balance < 0 THEN -e.balance ELSE e.balance
         IN IF a > Cent
            THEN <<[name |-> e.name, amount |-> a]>> \o PartitionCreditorsAbs(Tail(entries))
            ELSE PartitionCreditorsAbs(Tail(entries))

RECURSIVE PartitionCreditors(_)
PartitionCreditors(entries) ==
    IF entries = <<>> THEN <<>>
    ELSE LET e == Head(entries)
         IN IF (~(e.balance < -Cent)) /\ e.balance > Cent
            THEN <<[name |-> e.name, amount |-> e.balance]>> \o PartitionCreditors(Tail(entries))
            ELSE PartitionCreditors(Tail(entries))

\* The insertion of a sort that puts an entry before the entries of the same
\* amount.
RECURSIVE InsertDescBeforeEqual(_, _)
InsertDescBeforeEqual(x, sorted) ==
    IF sorted = <<>> THEN <<x>>
    ELSE IF Head(sorted).amount > x.amount
         THEN <<Head(sorted)>> \o InsertDescBeforeEqual(x, Tail(sorted))
         ELSE <<x>> \o sorted

\* Array.prototype.sort((a, b) => b.amount - a.amount): descending, stable.
RECURSIVE InsertDesc(_, _)
InsertDesc(x, sorted) ==
    IF sorted = <<>> THEN <<x>>
    ELSE IF Head(sorted).amount >= x.amount
         THEN <<Head(sorted)>> \o InsertDesc(x, Tail(sorted))
         ELSE <<x>> \o sorted

\* The sort left out (a comparator that returns a boolean sorts nothing).
SortDescNoSort(s) == s

RECURSIVE SortDesc(_)
SortDesc(s) ==
    IF s = <<>> THEN <<>>
    ELSE InsertDesc(s[Len(s)], SortDesc(SubSeq(s, 1, Len(s) - 1)))

\* Math.round(amount): to the nearest whole currency unit.
Round2Whole(amount) == ((2 * amount + 100 * Cent) \div (200 * Cent)) * (100 * Cent)

\* Math.ceil(amount * 100) / 100: up to the next cent.
Round2Ceil(amount) == ((amount + Cent - 1) \div Cent) * Cent

\* Math.round(amount * 100) / 100: to the nearest cent, halves upwards.
Round2(amount) == ((2 * amount + Cent) \div (2 * Cent)) * Cent

(***************************************************************************)
(* The inputs: a trip as loadTripFile / csvToData leaves it in appData.    *)
(***************************************************************************)
MemberLists == {SubSeq(Roster, 1, n) : n \in 0..MaxMembers}

\* The checked boxes of the expense form, in member order; or, from a trip
\* file, the members and a name that is no member.
Splits(ms) ==
    {SelectSeq(ms, LAMBDA m : m \in S) : S \in (SUBSET Range(ms)) \ {{}}}
        \cup {Append(ms, Foreign)}

ExpenseDomain(ms) ==
    [amount : {c * Scale : c \in AmountsInCents},
     paidBy : Range(ms) \cup {Foreign},
     splitBetween : Splits(ms)]

\* For the longer expense lists, fewer expenses to choose from: 0.03 or 100.00,
\* split among everybody, everybody and a non-member, the first member, the
\* first two, or everybody but the first.
FewAmountsInCents == {3, 10000}

FewSplits(ms) ==
    {ms, Append(ms, Foreign), SubSeq(ms, 1, Min(1, Len(ms))),
     SubSeq(ms, 1, Min(2, Len(ms))), SubSeq(ms, 2, Len(ms))} \ {<<>>}

FewExpenseDomain(ms) ==
    [amount : {c * Scale : c \in FewAmountsInCents},
     paidBy : Range(ms) \cup {Foreign},
     splitBetween : FewSplits(ms)]

\* No expense, any one expense, or 2..MaxExpenses of the fewer ones.
ExpenseLists(ms) ==
    {<<>>} \cup {<<e>> : e \in ExpenseDomain(ms)}
           \cup UNION {[1..n -> FewExpenseDomain(ms)] : n \in 2..MaxExpenses}

Init ==
    /\ members \in MemberLists
    /\ expenses \in ExpenseLists(members)
    /\ balances = [m \in Range(members) |-> 0]
    /\ debtors = <<>>
    /\ creditors = <<>>
    /\ i = 0
    /\ j = 0
    /\ settlements = <<>>
    /\ pc = "start"
    /\ EngineOnly

\* src/app.js:799-816: the balances, the two lists, the sorts, the cursors.
\* (The cursors are 0-based, as in the code; debtors[i] is debtors[i + 1] here.)
Partition ==
    /\ pc = "start"
    /\ balances' = calculateBalances(members, expenses)
    /\ debtors' = SortDesc(PartitionDebtors(Entries(members, balances')))
    /\ creditors' = SortDesc(PartitionCreditors(Entries(members, balances')))
    /\ i' = 0
    /\ j' = 0
    /\ settlements' = <<>>
    /\ pc' = "loop"
    /\ UNCHANGED <<members, expenses>>
    /\ UNCHANGED <<pageVars, fileVars, clientVars>>

\* One iteration with the names of a settlement exchanged: from the creditor,
\* to the debtor.
MatchFromCreditor ==
    /\ pc = "loop"
    /\ i < Len(debtors) /\ j < Len(creditors)
    /\ LET debtor == debtors[i + 1]
           creditor == creditors[j + 1]
           amount == Min(debtor.amount, creditor.amount)
           dAmount == debtor.amount - amount
           cAmount == creditor.amount - amount
       IN /\ settlements' =
                IF amount > Cent
                THEN Append(settlements,
                            [from |-> creditor.name, to |-> debtor.name,
                             amount |-> Round2(amount)])
                ELSE settlements
          /\ debtors' = [debtors EXCEPT ![i + 1].amount = dAmount]
          /\ creditors' = [creditors EXCEPT ![j + 1].amount = cAmount]
          /\ i' = IF dAmount < Cent THEN i + 1 ELSE i
          /\ j' = IF cAmount < Cent THEN j + 1 ELSE j
    /\ UNCHANGED <<members, expenses, balances, pc>>
    /\ UNCHANGED <<pageVars, fileVars, clientVars>>

\* One iteration with debtor and creditor held as references into the balance
\* mapping: what is matched is written to the balances too.
MatchThroughBalances ==
    /\ pc = "loop"
    /\ i < Len(debtors) /\ j < Len(creditors)
    /\ LET debtor == debtors[i + 1]
           creditor == creditors[j + 1]
           amount == Min(debtor.amount, creditor.amount)
           dAmount == debtor.amount - amount
           cAmount == creditor.amount - amount
       IN /\ settlements' =
                IF amount > Cent
                THEN Append(settlements,
                            [from |-> debtor.name, to |-> creditor.name,
                             amount |-> Round2(amount)])
                ELSE settlements
          /\ debtors' = [debtors EXCEPT ![i + 1].amount = dAmount]
          /\ creditors' = [creditors EXCEPT ![j + 1].amount = cAmount]
          /\ balances' = [balances EXCEPT ![debtor.name] = @ + amount,
                                          ![creditor.name] = @ - amount]
          /\ i' = IF dAmount < Cent THEN i + 1 ELSE i
          /\ j' = IF cAmount < Cent THEN j + 1 ELSE j
    /\ UNCHANGED <<members, expenses, pc>>
    /\ UNCHANGED <<pageVars, fileVars, clientVars>>

\* One iteration that advances a cursor only when the remaining amount is
\* below zero.
MatchAdvanceBelowZero ==
    /\ pc = "loop"
    /\ i < Len(debtors) /\ j < Len(creditors)
    /\ LET debtor == debtors[i + 1]
           creditor == creditors[j + 1]
           amount == Min(debtor.amount, creditor.amount)
           dAmount == debtor.amount - amount
           cAmount == creditor.amount - amount
       IN /\ settlements' =
                IF amount > Cent
                THEN Append(settlements,
                            [from |-> debtor.name, to |-> creditor.name,
                             amount |-> Round2(amount)])
                ELSE settlements
          /\ debtors' = [debtors EXCEPT ![i + 1].amount = dAmount]
          /\ creditors' = [creditors EXCEPT ![j + 1].amount = cAmount]
          /\ i' = IF dAmount < 0 THEN i + 1 ELSE i
          /\ j' = IF cAmount < 0 THEN j + 1 ELSE j
    /\ UNCHANGED <<members, expenses, balances, pc>>
    /\ UNCHANGED <<pageVars, fileVars, clientVars>>

\* One iteration that advances both cursors whatever remains.
MatchAdvanceBoth ==
    /\ pc = "loop"
    /\ i < Len(debtors) /\ j < Len(creditors)
    /\ LET debtor == debtors[i + 1]
           creditor == creditors[j + 1]
           amount == Min(debtor.amount, creditor.amount)
           dAmount == debtor.amount - amount
           cAmount == creditor.amount - amount
       IN /\ settlements' =
                IF amount > Cent
                THEN Append(settlements,
                            [from |-> debtor.name, to |-> creditor.name,
                             amount |-> Round2(amount)])
                ELSE settlements
          /\ debtors' = [debtors EXCEPT ![i + 1].amount = dAmount]
          /\ creditors' = [creditors EXCEPT ![j + 1].amount = cAmount]
          /\ i' = i + 1
          /\ j' = j + 1
    /\ UNCHANGED <<members, expenses, balances, pc>>
    /\ UNCHANGED <<pageVars, fileVars, clientVars>>

\* One iteration that records the payment as two settlements of the amount.
MatchPushesTwice ==
    /\ pc = "loop"
    /\ i < Len(debtors) /\ j < Len(creditors)
    /\ LET debtor == debtors[i + 1]
           creditor == creditors[j + 1]
           amount == Min(debtor.amount, creditor.amount)
           dAmount == debtor.amount - amount
           cAmount == creditor.amount - amount
           settlement == [from |-> debtor.name, to |-> creditor.name,
                          amount |-> Round2(amount)]
       IN /\ settlements' =
                IF amount > Cent
                THEN Append(Append(settlements, settlement), settlement)
                ELSE settlements
          /\ debtors' = [debtors EXCEPT ![i + 1].amount = dAmount]
          /\ creditors' = [creditors EXCEPT ![j + 1].amount = cAmount]
          /\ i' = IF dAmount < Cent THEN i + 1 ELSE i
          /\ j' = IF cAmount < Cent THEN j + 1 ELSE j
    /\ UNCHANGED <<members, expenses, balances, pc>>
    /\ UNCHANGED <<pageVars, fileVars, clientVars>>

\* One iteration that matches the larger of the two amounts.
MatchLargerAmount ==
    /\ pc = "loop"
    /\ i < Len(debtors) /\ j < Len(creditors)
    /\ LET debtor == debtors[i + 1]
           creditor == creditors[j + 1]
           amount == IF debtor.amount >= creditor.amount THEN debtor.amount
                     ELSE creditor.amount
           dAmount == debtor.amount - amount
           cAmount == creditor.amount - amount
       IN /\ settlements' =
                IF amount > Cent
                THEN Append(settlements,
                            [from |-> debtor.name, to |-> creditor.name,
                             amount |-> Round2(amount)])
                ELSE settlements
          /\ debtors' = [debtors EXCEPT ![i + 1].amount = dAmount]
          /\ creditors' = [creditors EXCEPT ![j + 1].amount = cAmount]
          /\ i' = IF dAmount < Cent THEN i + 1 ELSE i
          /\ j' = IF cAmount < Cent THEN j + 1 ELSE j
    /\ UNCHANGED <<members, expenses, balances, pc>>
    /\ UNCHANGED <<pageVars, fileVars, clientVars>>

\* src/app.js:818-836: one iteration of the while loop.
Match ==
    /\ pc = "loop"
    /\ i < Len(debtors) /\ j < Len(creditors)
    /\ LET debtor == debtors[i + 1]
           creditor == creditors[j + 1]
           amount == Min(debtor.amount, creditor.amount)
           dAmount == debtor.amount - amount
           cAmount == creditor.amount - amount
       IN /\ settlements' =
                IF amount > Cent
                THEN Append(settlements,
                            [from |-> debtor.name, to |-> creditor.name,
                             amount |-> Round2(amount)])
                ELSE settlements
          /\ debtors' = [debtors EXCEPT ![i + 1].amount = dAmount]
          /\ creditors' = [creditors EXCEPT ![j + 1].amount = cAmount]
          /\ i' = IF dAmount < Cent THEN i + 1 ELSE i
          /\ j' = IF cAmount < Cent THEN j + 1 ELSE j
    /\ UNCHANGED <<members, expenses, balances, pc>>
    /\ UNCHANGED <<pageVars, fileVars, clientVars>>

\* src/app.js:818, 838: the loop condition fails; return settlements.
Return ==
    /\ pc = "loop"
    /\ ~(i < Len(debtors) /\ j < Len(creditors))
    /\ pc' = "done"
    /\ UNCHANGED <<members, expenses, balances, debtors, creditors, i, j, settlements>>
    /\ UNCHANGED <<pageVars, fileVars, clientVars>>

Next == Partition \/ Match \/ Return

Spec == Init /\ [][Next]_vars

(***************************************************************************)
(* A second set of inputs: a trip of MaxMembers + 1 members in which the   *)
(* first two members pay whole amounts (10.00 or 12.00) for one or two of  *)
(* the others.                                                             *)
(***************************************************************************)
WholeAmountsInCents == {1000, 1200}

SplitsOfAtMostTwo(ms) ==
    {SelectSeq(ms, LAMBDA m : m \in S) :
        S \in {T \in SUBSET Range(SubSeq(ms, 3, Len(ms))) : Cardinality(T) \in {1, 2}}}

WholeExpenseDomain(ms) ==
    [amount : {c * Scale : c \in WholeAmountsInCents},
     paidBy : {ms[1], ms[2]},
     splitBetween : SplitsOfAtMostTwo(ms)]

InitFive ==
    /\ members = SubSeq(Roster, 1, MaxMembers + 1)
    /\ expenses \in UNION {[1..n -> WholeExpenseDomain(members)] : n \in 0..MaxExpenses}
    /\ balances = [m \in Range(members) |-> 0]
    /\ debtors = <<>>
    /\ creditors = <<>>
    /\ i = 0
    /\ j = 0
    /\ settlements = <<>>
    /\ pc = "start"
    /\ EngineOnly

SpecFive == InitFive /\ [][Next]_vars

(***************************************************************************)
(* Helpers of the properties.                                              *)
(***************************************************************************)
Abs(x) == IF x < 0 THEN -x ELSE x

RECURSIVE SumOver(_, _)
SumOver(bal, S) ==
    IF S = {} THEN 0
    ELSE LET m == CHOOSE x \in S : TRUE IN bal[m] + SumOver(bal, S \ {m})

SumOfBalances(bal) == SumOver(bal, DOMAIN bal)

\* Every expense has a positive amount, a non-empty splitBetween, a payer who
\* is a member and only members in splitBetween.
WellFormed(ms, exps) ==
    \A k \in 1..Len(exps) :
        /\ exps[k].amount > 0
        /\ exps[k].splitBetween # <<>>
        /\ exps[k].paidBy \in Range(ms)
        /\ Range(exps[k].splitBetween) \subseteq Range(ms)

\* The balances once every settlement is paid: the payer (from) owes less, the
\* payee (to) is owed less.
RECURSIVE AfterPayments(_, _)
AfterPayments(bal, setts) ==
    IF setts = <<>> THEN bal
    ELSE LET s == Head(setts)
         IN AfterPayments([bal EXCEPT ![s.from] = @ + s.amount, ![s.to] = @ - s.amount],
                          Tail(setts))

\* The settlements applied as the specification words it: the amount is
\* subtracted from the balance of from and added to the balance of to.
RECURSIVE AfterSubtractFromAddTo(_, _)
AfterSubtractFromAddTo(bal, setts) ==
    IF setts = <<>> THEN bal
    ELSE LET s == Head(setts)
         IN AfterSubtractFromAddTo(
                [bal EXCEPT ![s.from] = @ - s.amount, ![s.to] = @ + s.amount],
                Tail(setts))

Named(setts) == {setts[k].from : k \in 1..Len(setts)} \cup {setts[k].to : k \in 1..Len(setts)}

C2_AsWorded ==
    pc = "done" =>
        \A m \in DOMAIN balances : Abs(AfterSubtractFromAddTo(balances, settlements)[m]) <= Cent

(***************************************************************************)
(* C2, amended.  For every balance mapping, paying every returned          *)
(* settlement (the amount added to the balance of from and subtracted from *)
(* the balance of to) moves no balance away from zero: a member named in   *)
(* no settlement keeps its balance, and a member named in one ends with a  *)
(* strictly smaller absolute balance.                                      *)
(***************************************************************************)
C2_PaymentsMoveTowardsZero ==
    pc = "done" =>
        LET after == AfterPayments(balances, settlements)
        IN \A m \in DOMAIN balances :
              IF m \in Named(settlements)
              THEN Abs(after[m]) < Abs(balances[m])
              ELSE after[m] = balances[m]

\* A debtor has paid two creditors, or a creditor was paid by two debtors, and
\* somebody else was named in no settlement.
C2_Witness ==
    /\ pc = "done"
    /\ Len(settlements) >= 2
    /\ settlements[1].amount # settlements[2].amount
    /\ \E m \in DOMAIN balances : m \notin Named(settlements) /\ balances[m] # 0

(***************************************************************************)
(* C3  For a balance mapping that sums to zero, once every returned        *)
(* settlement is paid every member's balance is within 0.01 of zero.       *)
(* (The claim; the code falls short of it on one-cent remainders.)         *)
(***************************************************************************)
C3_FullySettles ==
    (pc = "done" /\ SumOfBalances(balances) = 0) =>
        \A m \in DOMAIN balances : Abs(AfterPayments(balances, settlements)[m]) <= Cent

(***************************************************************************)
(* The least number of payments that settles a zero-sum mapping exactly:   *)
(* the members with a non-zero balance, less the largest number of groups  *)
(* they can be divided into with every group summing to zero (a group of k *)
(* members needs k - 1 payments and cannot do with fewer).                 *)
(***************************************************************************)
NonZero(bal) == {m \in DOMAIN bal : bal[m] # 0}

RECURSIVE MaxZeroSumGroups(_, _)
MaxZeroSumGroups(bal, S) ==
    IF S = {} THEN 0
    ELSE LET m == CHOOSE x \in S : TRUE
             groups == {T \in SUBSET S : m \in T /\ SumOver(bal, T) = 0}
             counts == {1 + MaxZeroSumGroups(bal, S \ T) : T \in groups}
         IN IF counts = {} THEN 0 ELSE CHOOSE c \in counts : \A d \in counts : d <= c

MinPayments(bal) == Cardinality(NonZero(bal)) - MaxZeroSumGroups(bal, NonZero(bal))

\* Every balance is a whole number of currency units.
WholeUnits(bal) == \A m \in DOMAIN bal : bal[m] % (100 * Cent) = 0

C6_NoSelfSettlement ==
    \A k \in 1..Len(settlements) : settlements[k].from # settlements[k].to

\* A run that returned three settlements.
C6_Witness ==
    pc = "done" /\ Len(settlements) >= 3

(***************************************************************************)
(* C7  Empty input: with no members and no expenses calculateBalances      *)
(* returns the empty mapping, and calculateSettlements on the empty        *)
(* mapping returns the empty list.                                         *)
(***************************************************************************)
C7_EmptyInput ==
    /\ (pc # "start" /\ members = <<>> /\ expenses = <<>>) => DOMAIN balances = {}
    /\ (pc = "done" /\ DOMAIN balances = {}) => settlements = <<>>

C7_Witness ==
    pc = "done" /\ members = <<>> /\ expenses = <<>> /\ DOMAIN balances = {}

(***************************************************************************)
(* One expense, paid by a member and split among all the members.          *)
(***************************************************************************)
OnePayerSplitAmongAll ==
    /\ Len(expenses) = 1
    /\ expenses[1].paidBy \in Range(members)
    /\ expenses[1].splitBetween = members

Others == Range(members) \ {expenses[1].paidBy}

(***************************************************************************)
(* C8  One payer, split among all n members: the payer's balance is        *)
(* X - X/n, every other member's is -X/n, and the settlements are exactly  *)
(* one payment of X/n from each other member to the payer.  (The original  *)
(* statement; the code refutes it when X/n is no whole number of cents or  *)
(* is at most 0.01.)                                                       *)
(***************************************************************************)
C8_EachPaysShare ==
    (pc = "done" /\ OnePayerSplitAmongAll) =>
        LET X == expenses[1].amount
            share == X \div Len(members)
            payer == expenses[1].paidBy
        IN /\ balances[payer] = X - share
           /\ \A m \in Others : balances[m] = -share
           /\ Len(settlements) = Cardinality(Others)
           /\ {settlements[k].from : k \in 1..Len(settlements)} = Others
           /\ \A k \in 1..Len(settlements) :
                 settlements[k].to = payer /\ settlements[k].amount = share

(***************************************************************************)
(* C8, amended.  One payer, split among all n members: the payer's balance *)
(* is X - X/n and every other member's is -X/n; when X/n exceeds 0.01 the  *)
(* settlements are exactly one payment from each other member to the       *)
(* payer, of X/n rounded to a whole number of cents, and when X/n is at    *)
(* most 0.01 there is no settlement.                                       *)
(***************************************************************************)
C8_EachPaysRoundedShare ==
    (pc = "done" /\ OnePayerSplitAmongAll) =>
        LET X == expenses[1].amount
            share == X \div Len(members)
            payer == expenses[1].paidBy
        IN /\ balances[payer] = X - share
           /\ \A m \in Others : balances[m] = -share
           /\ IF share > Cent
              THEN /\ Len(settlements) = Cardinality(Others)
                   /\ {settlements[k].from : k \in 1..Len(settlements)} = Others
                   /\ \A k \in 1..Len(settlements) :
                         /\ settlements[k].to = payer
                         /\ settlements[k].amount % Cent = 0
                         /\ 2 * Abs(settlements[k].amount - share) <= Cent
              ELSE settlements = <<>>

\* Scenario A: 1000 paid by Alice for Alice, Bob, Carol and Dave.
C8_Witness ==
    /\ pc = "done"
    /\ members = <<"Alice", "Bob", "Carol", "Dave">>
    /\ expenses = <<[amount |-> 100000 * Cent, paidBy |-> "Alice", splitBetween |-> members]>>
    /\ balances = [m \in Range(members) |-> IF m = "Alice" THEN 75000 * Cent ELSE -25000 * Cent]
    /\ settlements = <<[from |-> "Bob", to |-> "Alice", amount |-> 25000 * Cent],
                       [from |-> "Carol", to |-> "Alice", amount |-> 25000 * Cent],
                       [from |-> "Dave", to |-> "Alice", amount |-> 25000 * Cent]>>

(***************************************************************************)
(* C9  Mutually cancelling expenses: when two members A and B each pay an  *)
(* expense of the same amount split between A and B, both balances are 0   *)
(* and the settlement list is empty.                                       *)
(***************************************************************************)
Cancelling(A, B) ==
    /\ A # B
    /\ Len(expenses) = 2
    /\ expenses[1].paidBy = A
    /\ expenses[2].paidBy = B
    /\ expenses[1].amount = expenses[2].amount
    /\ expenses[1].splitBetween = expenses[2].splitBetween
    /\ Len(expenses[1].splitBetween) = 2
    /\ Range(expenses[1].splitBetween) = {A, B}

C9_CancellingExpenses ==
    \A A \in Range(members) : \A B \in Range(members) :
        (pc = "done" /\ Cancelling(A, B)) =>
            balances[A] = 0 /\ balances[B] = 0 /\ settlements = <<>>

\* Scenario B, in a trip of four: the second and the first member have paid
\* 100.00 each for both.
C9_Witness ==
    /\ pc = "done"
    /\ Len(members) = 4
    /\ Cancelling(members[2], members[1])
    /\ expenses[1].amount = 10000 * Cent

(***************************************************************************)
(* C10  Scenario C: members [A, B, C] (here Alice, Bob, Carol) and one     *)
(* expense of 90 paid by A and split among A, B and C: the balances are    *)
(* A: 60, B: -30, C: -30 and the settlements are B pays A 30 and C pays    *)
(* A 30.                                                                   *)
(***************************************************************************)
ScenarioC ==
    /\ members = <<"Alice", "Bob", "Carol">>
    /\ expenses = <<[amount |-> 9000 * Cent, paidBy |-> "Alice", splitBetween |-> members]>>

C10_ScenarioC ==
    (pc = "done" /\ ScenarioC) =>
        /\ balances = [m \in Range(members) |-> IF m = "Alice" THEN 6000 * Cent ELSE -3000 * Cent]
        /\ settlements = <<[from |-> "Bob", to |-> "Alice", amount |-> 3000 * Cent],
                           [from |-> "Carol", to |-> "Alice", amount |-> 3000 * Cent]>>

C10_Witness ==
    pc = "done" /\ ScenarioC /\ Len(settlements) = 2

(***************************************************************************)
(* JavaScript numbers.  The engine's amounts and balances are IEEE-754     *)
(* binary64 values; this section computes them bit for bit, for the claims *)
(* that compare one balance mapping with another.  A natural number is the *)
(* sequence of its digits in base 2^LimbBits, lowest first and without     *)
(* high zeros; a number is [neg, mant, exp] and stands for                 *)
(* (-1)^neg * mant * 2^exp with 2^52 <= mant < 2^53 (or mant empty, exp 0  *)
(* and neg FALSE, for zero).  The magnitudes met here are far from         *)
(* overflow and from the subnormal range.                                  *)
(***************************************************************************)

\* The significand of a binary64 value has 53 binary digits.
Precision == 53

\* Binary digits per digit of a natural: a digit times a divisor of up to
\* seven binary digits stays below 2^31.
LimbBits == 24

Base == 2^LimbBits

NatOf(n) == IF n = 0 THEN <<>> ELSE IF n < Base THEN <<n>> ELSE <<n % Base, n \div Base>>

RECURSIVE Trim(_)
Trim(a) == IF a # <<>> /\ a[Len(a)] = 0 THEN Trim(SubSeq(a, 1, Len(a) - 1)) ELSE a

\* The digit of a at place k, 0 beyond its ends.
DigitAt(a, k) == IF k >= 1 /\ k <= Len(a) THEN a[k] ELSE 0

RECURSIVE AddNat(_, _, _)
AddNat(a, b, carry) ==
    IF a = <<>> /\ b = <<>> THEN (IF carry = 1 THEN <<1>> ELSE <<>>)
    ELSE LET s == DigitAt(a, 1) + DigitAt(b, 1) + carry
         IN <<s % Base>> \o AddNat(IF a = <<>> THEN a ELSE Tail(a),
                                   IF b = <<>> THEN b ELSE Tail(b), s \div Base)

\* a - b for a >= b, digit by digit with a borrow.
RECURSIVE SubDigits(_, _, _)
SubDigits(a, b, borrow) ==
    IF a = <<>> THEN <<>>
    ELSE LET d == Head(a) - DigitAt(b, 1) - borrow
         IN <<d % Base>> \o SubDigits(Tail(a), IF b = <<>> THEN b ELSE Tail(b),
                                      IF d < 0 THEN 1 ELSE 0)

SubNat(a, b) == Trim(SubDigits(a, b, 0))

\* a < b.
LessNat(a, b) ==
    \/ Len(a) < Len(b)
    \/ /\ Len(a) = Len(b)
       /\ \E k \in 1..Len(a) :
             /\ a[k] < b[k]
             /\ \A h \in (k + 1)..Len(a) : a[h] = b[h]

\* The number of binary digits of a.
BitLength(a) ==
    IF a = <<>> THEN 0
    ELSE LET top == a[Len(a)]
         IN (Len(a) - 1) * LimbBits + CHOOSE k \in 1..LimbBits : 2^(k - 1) <= top /\ top < 2^k

\* a * 2^k.
ShiftLeft(a, k) ==
    LET q == k \div LimbBits
        r == k % LimbBits
        low == 2^(LimbBits - r)
    IN IF a = <<>> THEN a
       ELSE [x \in 1..q |-> 0] \o
            Trim([x \in 1..(Len(a) + 1) |->
                     (DigitAt(a, x) % low) * 2^r + (DigitAt(a, x - 1) \div low)])

\* a \div 2^k.
ShiftRight(a, k) ==
    LET q == k \div LimbBits
        r == k % LimbBits
    IN Trim([x \in 1..(Len(a) - q) |->
                (DigitAt(a, x + q) \div 2^r) + (DigitAt(a, x + q + 1) % 2^r) * 2^(LimbBits - r)])

\* a % 2^k.
LowBits(a, k) ==
    LET q == k \div LimbBits
        r == k % LimbBits
    IN Trim([x \in 1..(q + 1) |-> IF x <= q THEN DigitAt(a, x) ELSE DigitAt(a, x) % 2^r])

\* Quotient and remainder of a natural by a small positive integer: long
\* division from the highest digit down.  rem is the remainder so far.
RECURSIVE DivDigits(_, _, _)
DivDigits(a, n, rem) ==
    IF a = <<>> THEN [quot |-> <<>>, rem |-> rem]
    ELSE LET r == rem * Base + a[Len(a)]
             rest == DivDigits(SubSeq(a, 1, Len(a) - 1), n, r % n)
         IN [quot |-> rest.quot \o <<r \div n>>, rem |-> rest.rem]

Zero == [neg |-> FALSE, mant |-> <<>>, exp |-> 0]

\* A value of at most Precision binary digits with the highest digit brought
\* to place Precision.
Normalized(neg, mant, exp) ==
    IF mant = <<>> THEN Zero
    ELSE LET up == Precision - BitLength(mant)
         IN [neg |-> neg, mant |-> ShiftLeft(mant, up), exp |-> exp - up]

\* Round to nearest, ties to even: the binary64 value nearest to
\* mant * 2^exp (+ something below the lowest digit when sticky).
RoundNearestEven(neg, mant, exp, sticky) ==
    LET d == BitLength(mant) - Precision
    IN IF d <= 0 THEN Normalized(neg, mant, exp)
       ELSE LET kept == ShiftRight(mant, d)
                low == LowBits(mant, d)
                half == ShiftLeft(<<1>>, d - 1)
                up == \/ LessNat(half, low)
                      \/ low = half /\ (sticky \/ kept[1] % 2 = 1)
                rounded == IF up THEN AddNat(kept, <<1>>, 0) ELSE kept
            IN IF BitLength(rounded) > Precision
               THEN Normalized(neg, ShiftRight(rounded, 1), exp + d + 1)
               ELSE Normalized(neg, rounded, exp + d)

\* x + y of the code: the exact sum, rounded.
NumberAdd(x, y) ==
    IF x.mant = <<>> THEN y ELSE IF y.mant = <<>> THEN x ELSE
    LET e == Min(x.exp, y.exp)
        a == ShiftLeft(x.mant, x.exp - e)
        b == ShiftLeft(y.mant, y.exp - e)
    IN IF x.neg = y.neg THEN RoundNearestEven(x.neg, AddNat(a, b, 0), e, FALSE)
       ELSE IF LessNat(a, b) THEN RoundNearestEven(y.neg, SubNat(b, a), e, FALSE)
       ELSE RoundNearestEven(x.neg, SubNat(a, b), e, FALSE)

NumberNegate(x) == IF x.mant = <<>> THEN x ELSE [x EXCEPT !.neg = ~@]

\* x - y of the code.
NumberSubtract(x, y) == NumberAdd(x, NumberNegate(y))

\* Digits the dividend is extended by, so that the quotient by a divisor of
\* up to seven digits has more than Precision + 1 of them.
GuardDigits == 64

\* x / n of the code for a whole n >= 1 (an array's length, or the 100 of a
\* two-decimal input): the exact quotient, rounded.
NumberDivide(x, n) ==
    LET d == DivDigits(ShiftLeft(x.mant, GuardDigits), n, 0)
    IN RoundNearestEven(x.neg, d.quot, x.exp - GuardDigits, d.rem # 0)

\* A whole number >= 0 as a number.
NumberOf(n) == Normalized(FALSE, NatOf(n), 0)

\* x < y of the code.
NumberLess(x, y) == NumberSubtract(x, y).neg

\* parseFloat of an amount typed or stored with two decimals, given as its
\* count of cents: the binary64 value nearest to cents / 100.
parseFloat(cents) == NumberDivide(NumberOf(cents), 100)

\* The amount of an expense of the model (exact ticks) as the code holds it.
AmountOf(expense) == parseFloat(expense.amount \div Cent)

(***************************************************************************)
(* calculateBalances, src/app.js:773-796, on JavaScript values.  balances  *)
(* is a plain object ({}), so balances[name] is the own property name or,  *)
(* when there is none, the property of that name which every object        *)
(* inherits from Object.prototype: undefined for a name such as "Zed", a   *)
(* function for "constructor".                                             *)
(***************************************************************************)

\* A name that is no member and that every object has an inherited property of.
Inherited == "constructor"

\* The names with an inherited property, as far as the inputs have them.
ObjectPrototypeKeys == {Inherited}

\* The values that are not numbers: the inherited function, the string that
\* function + number is, and NaN.
Function == [type |-> "function"]
String == [type |-> "string"]
NaN == [type |-> "NaN"]

IsNumber(v) == "mant" \in DOMAIN v /\ v # NaN

\* balances[name] !== undefined
IsDefined(bal, name) == name \in DOMAIN bal \/ name \in ObjectPrototypeKeys

\* balances[name]
Get(bal, name) == IF name \in DOMAIN bal THEN bal[name] ELSE Function

\* balances[name] = v: an own property, new when there was none.
Put(bal, name, v) == [k \in DOMAIN bal \cup {name} |-> IF k = name THEN v ELSE bal[k]]

\* v + x for a number x: the sum of two numbers, NaN for NaN, and the two
\* written one after the other for a function or a string.
Plus(v, x) == IF IsNumber(v) THEN NumberAdd(v, x) ELSE IF v = NaN THEN NaN ELSE String

\* v - x for a number x: a function or a string is no number.
Minus(v, x) == IF IsNumber(v) THEN NumberSubtract(v, x) ELSE NaN

RECURSIVE NumberDebitShares(_, _, _)
NumberDebitShares(bal, split, splitAmount) ==
    IF split = <<>> THEN bal
    ELSE LET person == Head(split)
             b1 == IF IsDefined(bal, person)
                   THEN Put(bal, person, Minus(Get(bal, person), splitAmount))
                   ELSE bal
         IN NumberDebitShares(b1, Tail(split), splitAmount)

NumberApplyExpense(bal, expense) ==
    LET amount == AmountOf(expense)
        splitAmount == NumberDivide(amount, Len(expense.splitBetween))
        b1 == IF IsDefined(bal, expense.paidBy)
              THEN Put(bal, expense.paidBy, Plus(Get(bal, expense.paidBy), amount))
              ELSE bal
    IN NumberDebitShares(b1, expense.splitBetween, splitAmount)

RECURSIVE NumberFoldExpenses(_, _)
NumberFoldExpenses(bal, exps) ==
    IF exps = <<>> THEN bal
    ELSE NumberFoldExpenses(NumberApplyExpense(bal, Head(exps)), Tail(exps))

NumberBalances(ms, exps) ==
    NumberFoldExpenses([m \in Range(ms) |-> Zero], exps)

(***************************************************************************)
(* calculateBalances run on JavaScript values, for trips as loadTripFile   *)
(* leaves them in appData: up to MaxExpenses expenses of 0.03 or 100.00,   *)
(* paid by a member or by a non-member and split as in FewSplits or among  *)
(* the members and "constructor".                                          *)
(***************************************************************************)
NumberExpenseDomain(ms) ==
    [amount : {c * Scale : c \in FewAmountsInCents},
     paidBy : Range(ms) \cup {Foreign, Inherited},
     splitBetween : FewSplits(ms) \cup {Append(ms, Inherited)}]

NumberExpenseLists(ms) == UNION {[1..n -> NumberExpenseDomain(ms)] : n \in 0..MaxExpenses}

InitNumbers ==
    /\ members \in MemberLists
    /\ expenses \in NumberExpenseLists(members)
    /\ balances = [m \in Range(members) |-> Zero]
    /\ debtors = <<>>
    /\ creditors = <<>>
    /\ i = 0
    /\ j = 0
    /\ settlements = <<>>
    /\ pc = "start"
    /\ EngineOnly

\* src/app.js:773-796, called by renderBalances and calculateSettlements.
NumberCalculateBalances ==
    /\ pc = "start"
    /\ balances' = NumberBalances(members, expenses)
    /\ pc' = "balances"
    /\ UNCHANGED <<members, expenses, debtors, creditors, i, j, settlements>>
    /\ UNCHANGED <<pageVars, fileVars, clientVars>>

NextNumbers == NumberCalculateBalances

SpecNumbers == InitNumbers /\ [][NextNumbers]_vars

\* The orders a list can be put in.
PermutationsOf(s) ==
    {[k \in 1..Len(s) |-> s[p[k]]] :
        p \in {f \in [1..Len(s) -> 1..Len(s)] : \A x, y \in 1..Len(s) : f[x] = f[y] => x = y}}

(***************************************************************************)
(* C11  Order independence: for a fixed member list, calculateBalances     *)
(* returns the same mapping for every permutation of the expense list.     *)
(* (The claim; the code's floating-point sums depend on the order.)        *)
(***************************************************************************)
C11_OrderIndependent ==
    pc = "balances" =>
        \A p \in PermutationsOf(expenses) : NumberBalances(members, p) = balances

(***************************************************************************)
(* C12  Non-member names are dropped: the key set of the mapping           *)
(* calculateBalances returns is exactly the set of current members,        *)
(* whatever names occur in paidBy or splitBetween; a name that is no       *)
(* member creates no entry.  (The claim; the code makes an entry for a     *)
(* name that every object inherits a property of.)                         *)
(***************************************************************************)
C12_KeysAreMembers ==
    pc = "balances" => DOMAIN balances = Range(members)

(***************************************************************************)
(* What a member has paid, and what a member owes: the amounts of the      *)
(* expenses the member paid, and the shares amount / |splitBetween| of the *)
(* expenses the member is in the splitBetween of.                          *)
(***************************************************************************)
RECURSIVE SumOfAmounts(_, _)
SumOfAmounts(exps, m) ==
    IF exps = <<>> THEN 0
    ELSE (IF Head(exps).paidBy = m THEN Head(exps).amount ELSE 0) + SumOfAmounts(Tail(exps), m)

RECURSIVE SumOfShares(_, _)
SumOfShares(exps, m) ==
    IF exps = <<>> THEN 0
    ELSE (IF m \in Range(Head(exps).splitBetween)
          THEN Head(exps).amount \div Len(Head(exps).splitBetween)
          ELSE 0) + SumOfShares(Tail(exps), m)

InBand(b) == -Cent <= b /\ b <= Cent

(***************************************************************************)
(* C14  Epsilon band: a member whose balance b has -0.01 <= b <= 0.01 is   *)
(* never the from or the to of a settlement, and when every balance is in  *)
(* that band the settlement list is empty.                                 *)
(***************************************************************************)
C14_EpsilonBand ==
    pc # "start" =>
        /\ \A m \in DOMAIN balances : InBand(balances[m]) => m \notin Named(settlements)
        /\ (\A m \in DOMAIN balances : InBand(balances[m])) => settlements = <<>>

\* Somebody owes exactly 0.01 and is left out of the settlement the others get.
C14_Witness ==
    /\ pc = "done"
    /\ settlements # <<>>
    /\ \E m \in DOMAIN balances : balances[m] = -Cent /\ m \notin Named(settlements)

(***************************************************************************)
(* C15  Every settlement is from a member whose balance is < -0.01 to a    *)
(* member whose balance is > 0.01, and its amount is strictly positive     *)
(* (at least 0.01).                                                        *)
(***************************************************************************)
C15_FromDebtorToCreditor ==
    \A k \in 1..Len(settlements) :
        /\ settlements[k].from \in DOMAIN balances
        /\ settlements[k].to \in DOMAIN balances
        /\ balances[settlements[k].from] < -Cent
        /\ balances[settlements[k].to] > Cent
        /\ settlements[k].amount > 0
        /\ settlements[k].amount >= Cent

\* A payment of exactly 0.01, for a debt between 0.01 and 0.015.
C15_Witness ==
    /\ pc = "done"
    /\ \E k \in 1..Len(settlements) :
          /\ settlements[k].amount = Cent
          /\ balances[settlements[k].from] > -2 * Cent

(***************************************************************************)
(* The handlers of the file-backed app, src/app.js:236-1072.  A handler    *)
(* reads its form when it is submitted; the texts typed are drawn from     *)
(* small sets here.  io is what the handler did to the trip file: "none",  *)
(* "write", or "error" for a write that threw.                             *)
(***************************************************************************)

\* The least number of members of a trip in src/app.js.
MinMembers == 4

\* A text of blanks only.
Blank == " "

\* String.prototype.trim, on the texts of the model: the empty text, blanks,
\* a name, or a name after a blank.
Strip(text) ==
    IF text \in {"", Blank} THEN ""
    ELSE IF \E n \in Range(Roster) : text = Blank \o n
         THEN CHOOSE n \in Range(Roster) : text = Blank \o n
         ELSE text

\* The trip names typed.
TripNameInputs == {"", Blank, "Goa"}

\* sanitizeFileName(tripName) + '.csv', for names of letters only.
FileNameOf(name) == name \o ".csv"

\* The member rows typed, MaxMembers rows at most: the first names of the
\* roster, all or all but the last or only the first; all but the last and a
\* blank row; all but the last and the first name again, after a blank; the
\* names from the second on; and all of them in the opposite order.
MemberRowInputs ==
    LET all == SubSeq(Roster, 1, MaxMembers)
        butLast == SubSeq(Roster, 1, MaxMembers - 1)
    IN {all, butLast, SubSeq(Roster, 1, 1),
        Append(butLast, Blank),
        Append(butLast, Blank \o Roster[1]),
        SubSeq(Roster, 2, MaxMembers + 1),
        [k \in 1..MaxMembers |-> all[MaxMembers + 1 - k]]}

\* Array.from(memberInputs).map(input => input.value.trim())
\*      .filter(name => name.length > 0)
NamesOf(rows) == SelectSeq([k \in 1..Len(rows) |-> Strip(rows[k])], LAMBDA n : n # "")

\* [...new Set(members)].length !== members.length
HasDuplicates(ms) == \E x, y \in 1..Len(ms) : x # y /\ ms[x] = ms[y]

\* The toast of the first check of the member names that fails, "none" when
\* none does.
MembersComplaint(ms, minimum, tooFew) ==
    IF Len(ms) < minimum THEN tooFew
    ELSE IF HasDuplicates(ms) THEN "Member names must be unique"
    ELSE "none"

\* The checks of the member names without the one for duplicates.
RejectsMembersFewOnly(ms, minimum) == Len(ms) < minimum

\* The checks of the member names in handleCreateNewTrip and
\* handleSaveSettings: too few, or not unique.
RejectsMembers(ms, minimum) == Len(ms) < minimum \/ HasDuplicates(ms)

\* The options of the currency select picked.
CurrencyInputs == {DefaultCurrency, "$"}

\* The trip forms submitted: every choice of rows and currency under one
\* name, and the other names over the full rows.
TripFormInputs ==
    LET all == SubSeq(Roster, 1, MaxMembers)
    IN {[form |-> "trip", tripName |-> "Goa", currency |-> c, rows |-> rows] :
            rows \in MemberRowInputs, c \in CurrencyInputs}
       \cup {[form |-> "trip", tripName |-> name, currency |-> DefaultCurrency, rows |-> all] :
                name \in TripNameInputs}

\* The descriptions typed.
DescriptionInputs == {"", Blank, "Taxi"}

\* The amounts typed, and parseFloat of them: NaN for no number, else a
\* count of cents.
AmountTexts == {"", "abc", "0", "-5", "100"}

NotANumber == {"", "abc"}

CentsOf(text) ==
    CASE text = "0" -> 0
      [] text = "-5" -> -500
      [] text = "100" -> 10000

\* The expense forms submitted over the options shown: one with the first
\* member as payer and every box checked; one with the last member as payer
\* and the first box cleared; and the first form with its description, its
\* amount, its payer or its boxes typed otherwise.
ExpenseFormInputs(options) ==
    LET first == IF Len(options) = 0 THEN "" ELSE options[1]
        last == IF Len(options) = 0 THEN "" ELSE options[Len(options)]
        filled == [form |-> "expense", description |-> "Taxi", amount |-> "100",
                   paidBy |-> first, splitBetween |-> options]
    IN {[filled EXCEPT !.paidBy = last, !.splitBetween = SubSeq(options, 2, Len(options))]}
       \cup {[filled EXCEPT !.description = d] : d \in DescriptionInputs}
       \cup {[filled EXCEPT !.amount = t] : t \in AmountTexts}
       \cup {[filled EXCEPT !.paidBy = ""]}
       \cup {[filled EXCEPT !.splitBetween = c] : c \in {options, <<>>}}

\* The checks of an expense with !amount alone for the amount.
RejectsExpenseNoSignCheck(description, text, paidBy, splitBetween) ==
    \/ Strip(description) = ""
    \/ text \in NotANumber \/ CentsOf(text) = 0
    \/ paidBy = ""
    \/ Len(splitBetween) = 0

\* The checks of handleAddExpense: !description, !amount || amount <= 0,
\* !paidBy, splitBetween.length === 0.
RejectsExpense(description, text, paidBy, splitBetween) ==
    \/ Strip(description) = ""
    \/ text \in NotANumber \/ CentsOf(text) = 0 \/ CentsOf(text) <= 0
    \/ paidBy = ""
    \/ Len(splitBetween) = 0

\* The toast of the first check of handleAddExpense that fails.
ExpenseComplaint(description, text, paidBy, splitBetween) ==
    IF Strip(description) = "" THEN "Please enter a description"
    ELSE IF text \in NotANumber \/ CentsOf(text) <= 0 THEN "Please enter a valid amount"
    ELSE IF paidBy = "" THEN "Please select who paid"
    ELSE "Please select at least one person to split with"

\* The expense handleAddExpense builds.
ExpenseOf(description, text, paidBy, splitBetween) ==
    [description |-> Strip(description), amount |-> CentsOf(text) * Scale,
     paidBy |-> paidBy, splitBetween |-> splitBetween]

\* saveCurrentTrip, src/app.js:300-312: nothing without an open trip file,
\* else a write, which may throw.
SaveCurrentTrip ==
    IF currentTripFileName = Null THEN io' = "none" ELSE io' \in {"write", "error"}

\* The engine is not run by the handlers modelled below.
EngineIdle ==
    /\ balances = [m \in {} |-> 0]
    /\ debtors = <<>>
    /\ creditors = <<>>
    /\ i = 0
    /\ j = 0
    /\ settlements = <<>>
    /\ pc = "idle"

\* A step that writes nothing and shows no toast.
Quiet == io' = "none" /\ toast' = "none"

\* JSON.stringify([...a].sort()) === JSON.stringify([...b].sort())
SameNames(a, b) ==
    \A n \in Range(a) \cup Range(b) :
        Cardinality({k \in 1..Len(a) : a[k] = n}) = Cardinality({k \in 1..Len(b) : b[k] = n})

\* list.filter(e => e.id !== id), for the expense at position k.
Without(list, k) == [x \in 1..(Len(list) - 1) |-> IF x < k THEN list[x] ELSE list[x + 1]]

\* src/app.js:556-568
openNewTripModal ==
    /\ app = "file" /\ screen = "selector" /\ modal = "none"
    /\ modal' = "newTrip"
    /\ Quiet
    /\ UNCHANGED <<members, expenses, screen, splitOptions, fileVars, app, engineVars, clientVars>>

\* src/app.js:570-572
closeNewTripModal ==
    /\ app = "file" /\ modal = "newTrip"
    /\ modal' = "none"
    /\ Quiet
    /\ UNCHANGED <<members, expenses, screen, splitOptions, fileVars, app, engineVars, clientVars>>

\* src/app.js:574-609 with createTripFile, 236-278: the checks; the trip
\* file must not exist; it is created; appData is replaced; the write, which
\* may throw after appData was replaced.
handleCreateNewTripOf(input, outcome) ==
    /\ app = "file" /\ modal = "newTrip"
    /\ LET newName == Strip(input.tripName)
           newMembers == NamesOf(input.rows)
           fileName == FileNameOf(newName)
       IN IF \/ newName = ""
             \/ RejectsMembers(newMembers, MinMembers)
             \/ fileName \in files
             \/ outcome = "not created"
          THEN /\ io' = "none"
               /\ toast' = IF newName = "" THEN "Please enter a trip name"
                           ELSE IF RejectsMembers(newMembers, MinMembers)
                                THEN MembersComplaint(newMembers, MinMembers, "Please add at least 4 members")
                           ELSE IF fileName \in files
                                THEN "A trip with this name already exists"
                           ELSE "Error creating trip file"
               /\ UNCHANGED <<members, expenses, tripName, currency, currentTripFileName, files,
                              screen, modal>>
          ELSE /\ files' = files \cup {fileName}
               /\ members' = newMembers
               /\ expenses' = <<>>
               /\ tripName' = newName
               /\ currency' = input.currency
               /\ IF outcome = "written"
                  THEN /\ io' = "write"
                       /\ toast' = "Trip created!"
                       /\ currentTripFileName' = fileName
                       /\ modal' = "none"
                       /\ screen' = "app"
                  ELSE /\ io' = "error"
                       /\ toast' = "Error creating trip file"
                       /\ UNCHANGED <<currentTripFileName, modal, screen>>
    /\ UNCHANGED <<splitOptions, app, engineVars, clientVars>>

handleCreateNewTrip ==
    \E input \in TripFormInputs, outcome \in {"written", "not created", "not written"} :
        handleCreateNewTripOf(input, outcome)

\* What csvToData (src/app.js:101-137) makes of the trip files of the folder,
\* which checks nothing: a trip of all the members with an expense written
\* by the app; the same with an amount that is no number (parseFloat(...) ||
\* 0), with an empty split column, with a payer who is no member; a file
\* without a #TRIP line; and a file whose member column names a member twice.
TripFileContents ==
    LET all == SubSeq(Roster, 1, MaxMembers)
        stored == [description |-> "Taxi", amount |-> 10000 * Scale, paidBy |-> all[1],
                   splitBetween |-> all]
        trip == [name |-> "Goa", currency |-> DefaultCurrency, members |-> all,
                 expenses |-> <<stored>>]
    IN {trip,
        [trip EXCEPT !.expenses = <<[stored EXCEPT !.amount = 0]>>],
        [trip EXCEPT !.expenses = <<[stored EXCEPT !.splitBetween = <<>>]>>],
        [trip EXCEPT !.expenses = <<[stored EXCEPT !.paidBy = Foreign]>>],
        [trip EXCEPT !.name = "", !.members = <<>>, !.expenses = <<>>],
        [trip EXCEPT !.members = Append(all, all[1])]}

\* src/app.js:615-620 with loadTripFile, 280-298: a trip card is clicked; the
\* file is read and appData replaced by what csvToData returns, or the read
\* throws and nothing changes.
openTrip ==
    /\ app = "file" /\ screen = "selector" /\ modal = "none"
    /\ \E fileName \in files, data \in TripFileContents, loaded \in BOOLEAN :
         IF loaded
         THEN /\ tripName' = data.name
              /\ currency' = data.currency
              /\ members' = data.members
              /\ expenses' = data.expenses
              /\ currentTripFileName' = fileName
              /\ screen' = "app"
              /\ toast' = "none"
         ELSE /\ toast' = "Error loading trip"
              /\ UNCHANGED <<tripName, currency, members, expenses, currentTripFileName, screen>>
    /\ io' = "none"
    /\ UNCHANGED <<modal, splitOptions, files, app, engineVars, clientVars>>

\* src/app.js:533-539: the trip file is let go, appData stays.
backToTripSelector ==
    /\ app = "file" /\ screen = "app" /\ modal = "none"
    /\ screen' = "selector"
    /\ currentTripFileName' = Null
    /\ Quiet
    /\ UNCHANGED <<members, expenses, modal, splitOptions, tripName, currency, files, app,
                   engineVars, clientVars>>

\* src/app.js:845-855 with populateExpenseForm, 862-874
openExpenseModal ==
    /\ app = "file" /\ screen = "app" /\ modal = "none"
    /\ IF Len(members) = 0
       THEN modal' = "settings" /\ toast' = "Please add members first" /\ UNCHANGED splitOptions
       ELSE modal' = "expense" /\ toast' = "none" /\ splitOptions' = members
    /\ io' = "none"
    /\ UNCHANGED <<members, expenses, screen, fileVars, app, engineVars, clientVars>>

\* src/app.js:857-860
closeExpenseModal ==
    /\ app = "file" /\ modal = "expense"
    /\ modal' = "none"
    /\ Quiet
    /\ UNCHANGED <<members, expenses, screen, splitOptions, fileVars, app, engineVars, clientVars>>

\* src/app.js:884-929: the checks, the push, the save, the form closed.
handleAddExpenseOf(input) ==
    /\ app = "file" /\ modal = "expense"
    /\ IF RejectsExpense(input.description, input.amount, input.paidBy, input.splitBetween)
       THEN /\ io' = "none"
            /\ toast' = ExpenseComplaint(input.description, input.amount, input.paidBy,
                                         input.splitBetween)
            /\ UNCHANGED <<expenses, modal>>
       ELSE /\ Len(expenses) < MaxExpenses
            /\ expenses' = Append(expenses, ExpenseOf(input.description, input.amount,
                                                      input.paidBy, input.splitBetween))
            /\ SaveCurrentTrip
            /\ modal' = "none"
            /\ toast' = "Expense added!"
    /\ UNCHANGED <<members, screen, splitOptions, fileVars, app, engineVars, clientVars>>

handleAddExpense == \E input \in ExpenseFormInputs(splitOptions) : handleAddExpenseOf(input)

\* src/app.js:931-938
deleteExpense ==
    /\ app = "file" /\ screen = "app" /\ modal = "none"
    /\ \E k \in 1..Len(expenses), confirmed \in BOOLEAN :
         IF confirmed
         THEN expenses' = Without(expenses, k) /\ SaveCurrentTrip /\ toast' = "Expense deleted"
         ELSE Quiet /\ UNCHANGED expenses
    /\ UNCHANGED <<members, screen, modal, splitOptions, fileVars, app, engineVars, clientVars>>

\* src/app.js:946-949
openSettingsModal ==
    /\ app = "file" /\ screen = "app" /\ modal = "none"
    /\ modal' = "settings"
    /\ Quiet
    /\ UNCHANGED <<members, expenses, screen, splitOptions, fileVars, app, engineVars, clientVars>>

\* src/app.js:951-953
closeSettingsModal ==
    /\ app = "file" /\ modal = "settings"
    /\ modal' = "none"
    /\ Quiet
    /\ UNCHANGED <<members, expenses, screen, splitOptions, fileVars, app, engineVars, clientVars>>

\* handleSaveSettings without the clearing of the expenses: changed members
\* are saved over the expenses there are.
handleSaveSettingsKeepsExpenses(input, confirmed) ==
    /\ app = "file" /\ modal = "settings"
    /\ LET newName == Strip(input.tripName)
           newMembers == NamesOf(input.rows)
       IN IF \/ newName = ""
             \/ RejectsMembers(newMembers, MinMembers)
          THEN /\ io' = "none"
               /\ toast' = IF newName = "" THEN "Please enter a trip name"
                           ELSE MembersComplaint(newMembers, MinMembers, "Please add at least 4 members")
               /\ UNCHANGED <<members, expenses, tripName, currency, modal>>
          ELSE /\ expenses' = expenses
               /\ tripName' = newName
               /\ currency' = input.currency
               /\ members' = newMembers
               /\ SaveCurrentTrip
               /\ modal' = "none"
               /\ toast' = "Settings saved!"
    /\ UNCHANGED <<currentTripFileName, files, screen, splitOptions, app, engineVars, clientVars>>

\* src/app.js:1013-1060: the checks; changed members clear the expenses
\* after a confirm; the name and the members are set; the save.
handleSaveSettingsOf(input, confirmed) ==
    /\ app = "file" /\ modal = "settings"
    /\ LET newName == Strip(input.tripName)
           newMembers == NamesOf(input.rows)
           membersChanged == ~SameNames(members, newMembers)
       IN IF \/ newName = ""
             \/ RejectsMembers(newMembers, MinMembers)
             \/ (membersChanged /\ Len(expenses) > 0 /\ ~confirmed)
          THEN /\ io' = "none"
               /\ toast' = IF newName = "" THEN "Please enter a trip name"
                           ELSE MembersComplaint(newMembers, MinMembers, "Please add at least 4 members")
               /\ UNCHANGED <<members, expenses, tripName, currency, modal>>
          ELSE /\ expenses' = IF membersChanged /\ Len(expenses) > 0 THEN <<>> ELSE expenses
               /\ tripName' = newName
               /\ currency' = input.currency
               /\ members' = newMembers
               /\ SaveCurrentTrip
               /\ modal' = "none"
               /\ toast' = "Settings saved!"
    /\ UNCHANGED <<currentTripFileName, files, screen, splitOptions, app, engineVars, clientVars>>

handleSaveSettings ==
    \E input \in TripFormInputs, confirmed \in BOOLEAN : handleSaveSettingsOf(input, confirmed)

\* The handlers of the file-backed app.
NextFile ==
    \/ openNewTripModal \/ closeNewTripModal \/ handleCreateNewTrip
    \/ openTrip \/ backToTripSelector
    \/ openExpenseModal \/ closeExpenseModal \/ handleAddExpense \/ deleteExpense
    \/ openSettingsModal \/ closeSettingsModal \/ handleSaveSettings

\* The file-backed app after init(), with the trips folder empty or holding
\* one trip file.
InitFile ==
    /\ app = "file"
    /\ members = <<>>
    /\ expenses = <<>>
    /\ EngineIdle
    /\ screen = "selector"
    /\ modal = "none"
    /\ splitOptions = <<>>
    /\ io = "none"
    /\ toast = "none"
    /\ tripName = ""
    /\ currency = DefaultCurrency
    /\ currentTripFileName = Null
    /\ files \in {{}, {FileNameOf("Goa")}}
    /\ loggedInPhone = Null
    /\ currentTrip = Null
    /\ currentTripId = Null
    /\ currentUserIsAdmin = FALSE
    /\ pendingTripId = Null
    /\ tripActions = FALSE
    /\ requests = {}

(***************************************************************************)
(* The handlers of the phone/PIN client, src/static/app.js:134-795.  A     *)
(* handler that awaits the server is two steps: the one that sends the     *)
(* request, and the one that runs when the answer arrives, with whatever   *)
(* other handlers ran in between.  The server is not part of the sources:  *)
(* it may accept or refuse any request, and the trips it answers with come *)
(* from a small set.  Names that src/app.js has too end in Client here.    *)
(***************************************************************************)

\* The least number of members of a trip in src/static/app.js.
MinMembersClient == 2

\* Requests in flight at one time.
MaxInFlight == 2

\* The phone numbers and the PINs typed.
PhoneInputs == {"", "9001"}

PinInputs == {"", "1234"}

\* The ids of the trips listed, and the id the server gives a new trip.
TripIds == {"t1"}

NewTripId == "t2"

\* The phone of a member of a trip the server holds.
PhoneOf(name) ==
    CASE name = Roster[1] -> "9001"
      [] name = Roster[2] -> "9002"
      [] OTHER -> "9003"

\* The member names of the trips the server holds.
TripMembersOf(tripId) == SubSeq(Roster, 1, MinMembersClient)

\* A request without an expense in its body.
NoExpense == [description |-> "", amount |-> 0, paidBy |-> "", splitBetween |-> <<>>]

\* A call of api(endpoint, options) that has not returned: the endpoint's
\* kind and trip id; the phone of a login; the phone and the PIN of a verify;
\* the member names of a new trip; the expense to add.
Request(kind, tripId, phone, pin, names, expense) ==
    [kind |-> kind, tripId |-> tripId, phone |-> phone, pin |-> pin,
     names |-> names, expense |-> expense]

\* The handler a request was sent by; handleSaveSettings sends a PUT and
\* then a GET.
HandlerOf(request) == IF request.kind = "get" THEN "put" ELSE request.kind

\* Whether one more request may be in flight: a handler is not run again
\* while a call of it awaits the server.
MaySend(request) ==
    /\ Cardinality(requests) < MaxInFlight
    /\ \A other \in requests : HandlerOf(other) # HandlerOf(request)

\* A member row of the client's trip forms.
Row(name, phone, pin) == [name |-> name, phone |-> phone, pin |-> pin]

\* The trip forms submitted in the client: two full rows; no trip name; one
\* row; a row without a PIN; the same name twice, after a blank; the same
\* phone twice; and a name again in a row with nothing else.
ClientTripFormInputs ==
    LET a == Row(Roster[1], "9001", "1234")
        b == Row(Roster[2], "9002", "5678")
    IN {[form |-> "trip", tripName |-> "Goa", rows |-> rows] :
            rows \in {<<a, b>>, <<a>>,
                      <<a, Row(Roster[2], "9002", "")>>,
                      <<a, Row(Blank \o Roster[1], "9002", "5678")>>,
                      <<a, Row(Roster[2], "9001", "5678")>>,
                      <<a, b, Row(Roster[1], "", "")>>}}
       \cup {[form |-> "trip", tripName |-> "", rows |-> <<a, b>>]}

\* Array.from(memberRows).map(row => ({name: ..., phone: ..., pin: ...}))
StripRows(rows) ==
    [k \in 1..Len(rows) |-> Row(Strip(rows[k].name), Strip(rows[k].phone), Strip(rows[k].pin))]

\* .filter(m => m.name && m.phone && m.pin)
FilledRows(rows) ==
    SelectSeq(StripRows(rows), LAMBDA m : m.name # "" /\ m.phone # "" /\ m.pin # "")

\* .filter(m => m.name && m.phone)
NamedRows(rows) == SelectSeq(StripRows(rows), LAMBDA m : m.name # "" /\ m.phone # "")

\* members.map(m => m.name), members.map(m => m.phone)
NamesIn(rows) == [k \in 1..Len(rows) |-> rows[k].name]

PhonesIn(rows) == [k \in 1..Len(rows) |-> rows[k].phone]

\* The checks of the members in the client: too few, names not unique,
\* phones not unique.
RejectsMembersClient(rows) ==
    \/ RejectsMembers(NamesIn(rows), MinMembersClient)
    \/ HasDuplicates(PhonesIn(rows))

\* The toast of the first check of the members that fails, in the client.
MembersComplaintClient(rows) ==
    IF RejectsMembers(NamesIn(rows), MinMembersClient)
    THEN MembersComplaint(NamesIn(rows), MinMembersClient, "Please add at least 2 members")
    ELSE "Phone numbers must be unique"

\* error.message of a request the server refused, as api() sets it when the
\* answer names no error.
RequestFailed == "Request failed"

\* src/static/app.js:147-154 with loginWithPhone up to its await, 156-161
handleLogin ==
    /\ app = "client" /\ screen = "selector" /\ ~tripActions /\ modal = "none"
    /\ \E text \in PhoneInputs :
         LET phone == Strip(text)
             request == Request("login", Null, phone, "", <<>>, NoExpense)
         IN IF phone = ""
            THEN toast' = "Please enter your phone number" /\ UNCHANGED requests
            ELSE /\ MaySend(request)
                 /\ requests' = requests \cup {request}
                 /\ toast' = "none"
    /\ UNCHANGED <<io, members, expenses, screen, modal, splitOptions, app, engineVars, fileVars,
                   loggedInPhone, currentTrip, currentTripId, currentUserIsAdmin,
                   pendingTripId, tripActions>>

\* src/static/app.js:162-171: loginWithPhone after its await.
loginWithPhoneAwait ==
    /\ app = "client"
    /\ \E request \in requests, ok \in BOOLEAN :
         /\ request.kind = "login"
         /\ requests' = requests \ {request}
         /\ IF ok
            THEN loggedInPhone' = request.phone /\ tripActions' = TRUE /\ toast' = "none"
            ELSE tripActions' = FALSE /\ toast' = RequestFailed /\ UNCHANGED loggedInPhone
    /\ UNCHANGED <<io, members, expenses, screen, modal, splitOptions, app, engineVars, fileVars,
                   currentTrip, currentTripId, currentUserIsAdmin, pendingTripId>>

\* src/static/app.js:174-176: handleLogout up to its await.
handleLogout ==
    /\ app = "client" /\ screen = "selector" /\ tripActions /\ modal = "none"
    /\ LET request == Request("logout", Null, "", "", <<>>, NoExpense)
       IN /\ MaySend(request)
          /\ requests' = requests \cup {request}
    /\ toast' = "none"
    /\ UNCHANGED <<io, members, expenses, screen, modal, splitOptions, app, engineVars, fileVars,
                   loggedInPhone, currentTrip, currentTripId, currentUserIsAdmin,
                   pendingTripId, tripActions>>

\* src/static/app.js:177-182: handleLogout after its await, whatever the
\* server answered.
handleLogoutAwait ==
    /\ app = "client"
    /\ \E request \in requests :
         /\ request.kind = "logout"
         /\ requests' = requests \ {request}
    /\ loggedInPhone' = Null
    /\ tripActions' = FALSE
    /\ toast' = "none"
    /\ UNCHANGED <<io, members, expenses, screen, modal, splitOptions, app, engineVars, fileVars,
                   currentTrip, currentTripId, currentUserIsAdmin, pendingTripId>>

\* src/static/app.js:234-251
openNewTripModalClient ==
    /\ app = "client" /\ screen = "selector" /\ tripActions /\ modal = "none"
    /\ IF loggedInPhone = Null
       THEN toast' = "Please login with your phone first" /\ UNCHANGED modal
       ELSE toast' = "none" /\ modal' = "newTrip"
    /\ UNCHANGED <<io, members, expenses, screen, splitOptions, app, engineVars, fileVars, clientVars>>

\* src/static/app.js:253-255
closeNewTripModalClient ==
    /\ app = "client" /\ modal = "newTrip"
    /\ modal' = "none"
    /\ toast' = "none"
    /\ UNCHANGED <<io, members, expenses, screen, splitOptions, app, engineVars, fileVars, clientVars>>

\* src/static/app.js:257-300: handleCreateNewTrip up to its await.
handleCreateNewTripClientOf(input) ==
    /\ app = "client" /\ modal = "newTrip"
    /\ LET newName == Strip(input.tripName)
           newMembers == FilledRows(input.rows)
           request == Request("create", Null, "", "", NamesIn(newMembers), NoExpense)
       IN IF newName = "" \/ RejectsMembersClient(newMembers)
          THEN /\ toast' = IF newName = "" THEN "Please enter a trip name"
                           ELSE MembersComplaintClient(newMembers)
               /\ UNCHANGED requests
          ELSE /\ MaySend(request)
               /\ requests' = requests \cup {request}
               /\ toast' = "none"
    /\ UNCHANGED <<io, members, expenses, screen, modal, splitOptions, app, engineVars, fileVars,
                   loggedInPhone, currentTrip, currentTripId, currentUserIsAdmin,
                   pendingTripId, tripActions>>

handleCreateNewTripClient == \E input \in ClientTripFormInputs : handleCreateNewTripClientOf(input)

\* src/static/app.js:302-310: handleCreateNewTrip after its await.
handleCreateNewTripAwaitOf(request, ok, admin) ==
    /\ app = "client"
    /\ request \in requests
    /\ request.kind = "create"
    /\ requests' = requests \ {request}
    /\ IF ok
       THEN /\ modal' = IF modal = "newTrip" THEN "none" ELSE modal
            /\ currentTrip' = NewTripId
            /\ currentTripId' = NewTripId
            /\ currentUserIsAdmin' = admin
            /\ members' = request.names
            /\ expenses' = <<>>
            /\ screen' = "app"
            /\ toast' = "Trip created!"
       ELSE /\ toast' = RequestFailed
            /\ UNCHANGED <<modal, currentTrip, currentTripId, currentUserIsAdmin,
                           members, expenses, screen>>
    /\ UNCHANGED <<io, splitOptions, app, engineVars, fileVars, loggedInPhone, pendingTripId,
                   tripActions>>

handleCreateNewTripAwait ==
    \E request \in requests, ok \in BOOLEAN, admin \in BOOLEAN :
        handleCreateNewTripAwaitOf(request, ok, admin)

\* src/static/app.js:313-318
openTripPin ==
    /\ app = "client" /\ screen = "selector" /\ tripActions /\ modal = "none"
    /\ \E tripId \in TripIds : pendingTripId' = tripId
    /\ modal' = "pin"
    /\ toast' = "none"
    /\ UNCHANGED <<io, members, expenses, screen, splitOptions, app, engineVars, fileVars,
                   loggedInPhone, currentTrip, currentTripId, currentUserIsAdmin,
                   tripActions, requests>>

\* src/static/app.js:320-323
closePinModal ==
    /\ app = "client" /\ modal = "pin"
    /\ modal' = "none"
    /\ pendingTripId' = Null
    /\ toast' = "none"
    /\ UNCHANGED <<io, members, expenses, screen, splitOptions, app, engineVars, fileVars,
                   loggedInPhone, currentTrip, currentTripId, currentUserIsAdmin,
                   tripActions, requests>>

\* src/static/app.js:325-338: handleVerifyTrip up to its await.
handleVerifyTripOf(text) ==
    /\ app = "client" /\ modal = "pin"
    /\ LET pin == Strip(text)
           request == Request("verify", pendingTripId, loggedInPhone, pin, <<>>, NoExpense)
       IN IF pendingTripId = Null \/ pin = ""
          THEN /\ toast' = IF pendingTripId = Null THEN "none" ELSE "Please enter your PIN"
               /\ UNCHANGED requests
          ELSE /\ MaySend(request)
               /\ requests' = requests \cup {request}
               /\ toast' = "none"
    /\ UNCHANGED <<io, members, expenses, screen, modal, splitOptions, app, engineVars, fileVars,
                   loggedInPhone, currentTrip, currentTripId, currentUserIsAdmin,
                   pendingTripId, tripActions>>

handleVerifyTrip == \E text \in PinInputs : handleVerifyTripOf(text)

\* handleVerifyTrip after its await with the answer taken for the trip
\* whether or not the server accepted the PIN.
handleVerifyTripAwaitAnyAnswer(request, ok, admin) ==
    /\ app = "client"
    /\ request \in requests
    /\ request.kind = "verify"
    /\ requests' = requests \ {request}
    /\ currentTrip' = request.tripId
    /\ currentTripId' = request.tripId
    /\ currentUserIsAdmin' = admin
    /\ members' = TripMembersOf(request.tripId)
    /\ expenses' = <<>>
    /\ modal' = IF modal = "pin" THEN "none" ELSE modal
    /\ pendingTripId' = Null
    /\ screen' = "app"
    /\ toast' = IF ok THEN "none" ELSE RequestFailed
    /\ UNCHANGED <<io, splitOptions, app, engineVars, fileVars, loggedInPhone, tripActions>>

\* src/static/app.js:340-348: handleVerifyTrip after its await.
handleVerifyTripAwaitOf(request, ok, admin) ==
    /\ app = "client"
    /\ request \in requests
    /\ request.kind = "verify"
    /\ requests' = requests \ {request}
    /\ IF ok
       THEN /\ currentTrip' = request.tripId
            /\ currentTripId' = request.tripId
            /\ currentUserIsAdmin' = admin
            /\ members' = TripMembersOf(request.tripId)
            /\ expenses' = <<>>
            /\ modal' = IF modal = "pin" THEN "none" ELSE modal
            /\ pendingTripId' = Null
            /\ screen' = "app"
            /\ toast' = "none"
       ELSE /\ toast' = RequestFailed
            /\ UNCHANGED <<currentTrip, currentTripId, currentUserIsAdmin, members,
                           expenses, modal, pendingTripId, screen>>
    /\ UNCHANGED <<io, splitOptions, app, engineVars, fileVars, loggedInPhone, tripActions>>

handleVerifyTripAwait ==
    \E request \in requests, ok \in BOOLEAN, admin \in BOOLEAN :
        handleVerifyTripAwaitOf(request, ok, admin)

\* src/static/app.js:225-232
backToTripSelectorClient ==
    /\ app = "client" /\ screen = "app" /\ modal = "none"
    /\ screen' = "selector"
    /\ currentTrip' = Null
    /\ currentTripId' = Null
    /\ currentUserIsAdmin' = FALSE
    /\ members' = <<>>
    /\ expenses' = <<>>
    /\ toast' = "none"
    /\ UNCHANGED <<io, modal, splitOptions, app, engineVars, fileVars, loggedInPhone,
                   pendingTripId, tripActions, requests>>

\* src/static/app.js:505-515
openExpenseModalClient ==
    /\ app = "client" /\ screen = "app" /\ modal = "none"
    /\ IF currentTrip = Null \/ Len(members) = 0
       THEN modal' = "settings" /\ toast' = "Please add members first" /\ UNCHANGED splitOptions
       ELSE modal' = "expense" /\ toast' = "none" /\ splitOptions' = members
    /\ UNCHANGED <<io, members, expenses, screen, app, engineVars, fileVars, clientVars>>

\* src/static/app.js:517-520
closeExpenseModalClient ==
    /\ app = "client" /\ modal = "expense"
    /\ modal' = "none"
    /\ toast' = "none"
    /\ UNCHANGED <<io, members, expenses, screen, splitOptions, app, engineVars, fileVars, clientVars>>

\* src/static/app.js:544-585: handleAddExpense up to its await.
handleAddExpenseClientOf(input) ==
    /\ app = "client" /\ modal = "expense"
    /\ LET request == Request("expense", currentTripId, "", "", <<>>,
                              ExpenseOf(input.description, input.amount, input.paidBy,
                                        input.splitBetween))
       IN IF RejectsExpense(input.description, input.amount, input.paidBy, input.splitBetween)
          THEN /\ toast' = ExpenseComplaint(input.description, input.amount, input.paidBy,
                                            input.splitBetween)
               /\ UNCHANGED requests
          ELSE /\ MaySend(request)
               /\ Len(expenses) < MaxExpenses
               /\ requests' = requests \cup {request}
               /\ toast' = "none"
    /\ UNCHANGED <<io, members, expenses, screen, modal, splitOptions, app, engineVars, fileVars,
                   loggedInPhone, currentTrip, currentTripId, currentUserIsAdmin,
                   pendingTripId, tripActions>>

handleAddExpenseClient ==
    \E input \in ExpenseFormInputs(splitOptions) : handleAddExpenseClientOf(input)

\* src/static/app.js:587-595: handleAddExpense after its await; the push
\* throws when no trip is held, and the throw is caught.
handleAddExpenseAwait ==
    /\ app = "client"
    /\ \E request \in requests, ok \in BOOLEAN :
         /\ request.kind = "expense"
         /\ requests' = requests \ {request}
         /\ IF ok /\ currentTrip # Null
            THEN /\ expenses' = Append(expenses, request.expense)
                 /\ modal' = IF modal = "expense" THEN "none" ELSE modal
                 /\ toast' = "Expense added!"
            ELSE /\ toast' = IF ok THEN "TypeError" ELSE RequestFailed
                 /\ UNCHANGED <<expenses, modal>>
    /\ UNCHANGED <<io, members, screen, splitOptions, app, engineVars, fileVars, loggedInPhone,
                   currentTrip, currentTripId, currentUserIsAdmin, pendingTripId, tripActions>>

\* src/static/app.js:617-620
openSettingsModalClient ==
    /\ app = "client" /\ screen = "app" /\ modal = "none"
    /\ modal' = "settings"
    /\ toast' = "none"
    /\ UNCHANGED <<io, members, expenses, screen, splitOptions, app, engineVars, fileVars, clientVars>>

\* src/static/app.js:622-624
closeSettingsModalClient ==
    /\ app = "client" /\ modal = "settings"
    /\ modal' = "none"
    /\ toast' = "none"
    /\ UNCHANGED <<io, members, expenses, screen, splitOptions, app, engineVars, fileVars, clientVars>>

\* The admin check of handleSaveSettings left out.
MaySaveSettingsAnyone == TRUE

\* src/static/app.js:705-708: if (!currentUserIsAdmin) return
MaySaveSettings == currentUserIsAdmin

\* src/static/app.js:702-764: handleSaveSettings up to its first await.
handleSaveSettingsClientOf(input, confirmed) ==
    /\ app = "client" /\ modal = "settings"
    /\ LET newName == Strip(input.tripName)
           newMembers == NamedRows(input.rows)
           oldPhones == {PhoneOf(name) : name \in Range(members)}
           membersChanged == oldPhones # Range(PhonesIn(newMembers))
           request == Request("put", currentTripId, "", "", <<>>, NoExpense)
       IN IF \/ ~MaySaveSettings
             \/ newName = ""
             \/ RejectsMembersClient(newMembers)
             \/ currentTrip = Null
             \/ (membersChanged /\ Len(expenses) > 0 /\ ~confirmed)
          THEN /\ toast' = IF ~MaySaveSettings THEN "Admin access required"
                           ELSE IF newName = "" THEN "Please enter a trip name"
                           ELSE IF RejectsMembersClient(newMembers)
                                THEN MembersComplaintClient(newMembers)
                           ELSE IF currentTrip = Null THEN "TypeError"
                           ELSE "none"
               /\ UNCHANGED requests
          ELSE /\ MaySend(request)
               /\ requests' = requests \cup {request}
               /\ toast' = "none"
    /\ UNCHANGED <<io, members, expenses, screen, modal, splitOptions, app, engineVars, fileVars,
                   loggedInPhone, currentTrip, currentTripId, currentUserIsAdmin,
                   pendingTripId, tripActions>>

handleSaveSettingsClient ==
    \E input \in ClientTripFormInputs, confirmed \in BOOLEAN :
        handleSaveSettingsClientOf(input, confirmed)

\* src/static/app.js:766: handleSaveSettings after the await of its PUT,
\* up to the await of the GET of the trip that is current by then.
handleSaveSettingsAwaitPut ==
    /\ app = "client"
    /\ \E request \in requests, ok \in BOOLEAN :
         /\ request.kind = "put"
         /\ IF ok
            THEN /\ requests' = (requests \ {request})
                        \cup {Request("get", currentTripId, "", "", <<>>, NoExpense)}
                 /\ toast' = "none"
            ELSE /\ requests' = requests \ {request}
                 /\ toast' \in {"Please confirm member changes", RequestFailed}
    /\ UNCHANGED <<io, members, expenses, screen, modal, splitOptions, app, engineVars, fileVars,
                   loggedInPhone, currentTrip, currentTripId, currentUserIsAdmin,
                   pendingTripId, tripActions>>

\* src/static/app.js:766-770: handleSaveSettings after the await of its GET.
\* No trip is read under a null id.
handleSaveSettingsAwaitGet ==
    /\ app = "client"
    /\ \E request \in requests, ok \in BOOLEAN, admin \in BOOLEAN, kept \in BOOLEAN :
         /\ request.kind = "get"
         /\ requests' = requests \ {request}
         /\ IF ok /\ request.tripId # Null
            THEN /\ currentTrip' = request.tripId
                 /\ currentUserIsAdmin' = admin
                 /\ members' = TripMembersOf(request.tripId)
                 /\ expenses' = IF kept /\ currentTrip = request.tripId THEN expenses ELSE <<>>
                 /\ modal' = IF modal = "settings" THEN "none" ELSE modal
                 /\ toast' = "Settings saved!"
            ELSE /\ toast' = RequestFailed
                 /\ UNCHANGED <<currentTrip, currentUserIsAdmin, members, expenses, modal>>
    /\ UNCHANGED <<io, screen, splitOptions, app, engineVars, fileVars, loggedInPhone,
                   currentTripId, pendingTripId, tripActions>>

\* The handlers of the phone/PIN client.
NextClient ==
    \/ handleLogin \/ loginWithPhoneAwait \/ handleLogout \/ handleLogoutAwait
    \/ openNewTripModalClient \/ closeNewTripModalClient
    \/ handleCreateNewTripClient \/ handleCreateNewTripAwait
    \/ openTripPin \/ closePinModal \/ handleVerifyTrip \/ handleVerifyTripAwait
    \/ backToTripSelectorClient
    \/ openExpenseModalClient \/ closeExpenseModalClient
    \/ handleAddExpenseClient \/ handleAddExpenseAwait
    \/ openSettingsModalClient \/ closeSettingsModalClient
    \/ handleSaveSettingsClient \/ handleSaveSettingsAwaitPut \/ handleSaveSettingsAwaitGet

\* The client after init(), src/static/app.js:88-96, with no phone saved by
\* an earlier visit: the login section is shown.
InitClient ==
    /\ app = "client"
    /\ members = <<>>
    /\ expenses = <<>>
    /\ EngineIdle
    /\ screen = "selector"
    /\ modal = "none"
    /\ splitOptions = <<>>
    /\ io = "none"
    /\ toast = "none"
    /\ tripName = ""
    /\ currency = DefaultCurrency
    /\ currentTripFileName = Null
    /\ files = {}
    /\ loggedInPhone = Null
    /\ currentTrip = Null
    /\ currentTripId = Null
    /\ currentUserIsAdmin = FALSE
    /\ pendingTripId = Null
    /\ tripActions = FALSE
    /\ requests = {}

\* The two programs: either the file-backed app or the client runs.
InitApp == InitFile \/ InitClient

NextApp == NextFile \/ NextClient

SpecApp == InitApp /\ [][NextApp]_vars

(***************************************************************************)
(* The handlers: validation and access.                                    *)
(***************************************************************************)

\* An expense form that is filled in as the expense handlers ask: a
\* description, an amount that is a number above 0, a payer, a name checked.
FilledIn(input) ==
    /\ Strip(input.description) # ""
    /\ input.amount \notin NotANumber
    /\ CentsOf(input.amount) > 0
    /\ input.paidBy # ""
    /\ input.splitBetween # <<>>

\* An expense as the engine needs it.
Sound(expense) ==
    /\ expense.description # ""
    /\ expense.amount > 0
    /\ expense.paidBy # ""
    /\ expense.splitBetween # <<>>

\* C16: handleAddExpense appends an expense, and saves or posts it, only
\* when the form is filled in: description, amount above 0, payer, split.
\* In the file-backed app a form that is not filled in leaves the expense
\* list as it was and writes nothing, and any other appends just the expense
\* of the form.  In the client a form that is not filled in sends nothing,
\* any other sends just the expense of the form, and the handler, resumed,
\* appends nothing but the expense of a request that was in flight.
C16_ExpenseValidation ==
    [][/\ modal = "expense" =>
          \A input \in ExpenseFormInputs(splitOptions) :
            /\ handleAddExpenseOf(input) =>
                   IF FilledIn(input)
                   THEN /\ Len(expenses') = Len(expenses) + 1
                        /\ SubSeq(expenses', 1, Len(expenses)) = expenses
                        /\ Sound(expenses'[Len(expenses')])
                        /\ expenses'[Len(expenses')].paidBy = input.paidBy
                        /\ expenses'[Len(expenses')].splitBetween = input.splitBetween
                   ELSE expenses' = expenses /\ io' = "none" /\ toast' # "Expense added!"
            /\ handleAddExpenseClientOf(input) =>
                   /\ expenses' = expenses
                   /\ IF FilledIn(input)
                      THEN \E request \in requests' :
                               /\ requests' = requests \cup {request}
                               /\ request.kind = "expense"
                               /\ Sound(request.expense)
                               /\ request.expense.paidBy = input.paidBy
                               /\ request.expense.splitBetween = input.splitBetween
                      ELSE requests' = requests /\ toast' # "none"
       /\ handleAddExpenseAwait =>
              \/ expenses' = expenses
              \/ \E request \in requests \ requests' :
                     /\ request.kind = "expense"
                     /\ Sound(request.expense)
                     /\ expenses' = Append(expenses, request.expense)
      ]_vars

\* An expense was added and saved in the file-backed app, after another.
C16_Witness ==
    /\ app = "file"
    /\ io = "write"
    /\ toast = "Expense added!"
    /\ modal = "none"
    /\ Len(expenses) > 1
    /\ Sound(expenses[Len(expenses)])
    /\ expenses[Len(expenses)].splitBetween # members

\* Member names that are too few, or of which two are the same.
FewOrSame(names, minimum) ==
    \/ Len(names) < minimum
    \/ \E x, y \in 1..Len(names) : x # y /\ names[x] = names[y]

\* The toasts of a trip form that is refused.
Refusals ==
    {"Please enter a trip name", "Please add at least 4 members",
     "Please add at least 2 members", "Member names must be unique",
     "Phone numbers must be unique"}

\* The trip forms with too few non-empty member names, or with a name twice.
FewOrSameInputs ==
    {input \in TripFormInputs : FewOrSame(NamesOf(input.rows), MinMembers)}

\* The client's trip forms with too few complete rows, or with a name twice.
FewOrSameClientInputs ==
    {input \in ClientTripFormInputs :
        FewOrSame(NamesIn(FilledRows(input.rows)), MinMembersClient)}

\* C17: creating a trip or saving the trip settings with fewer non-empty
\* member names than the minimum (4 in the file-backed app, 2 in the client,
\* where a member is a row with name, phone and PIN), or with a name twice,
\* is refused with a toast: the trip name, the members and the expenses stay
\* as they were, no file is created or written, and no request is sent.
C17_MemberValidation ==
    [][/\ app = "file" /\ modal = "newTrip" =>
            \A input \in FewOrSameInputs :
                \A outcome \in {"written", "not created", "not written"} :
                   handleCreateNewTripOf(input, outcome) =>
                           /\ UNCHANGED <<tripName, currency, members, expenses, files,
                                          currentTripFileName, screen>>
                           /\ io' = "none"
                           /\ toast' \in Refusals
       /\ app = "file" /\ modal = "settings" =>
            \A input \in FewOrSameInputs :
                \A confirmed \in BOOLEAN :
                   handleSaveSettingsOf(input, confirmed) =>
                           /\ UNCHANGED <<tripName, currency, members, expenses, files,
                                          currentTripFileName>>
                           /\ io' = "none"
                           /\ toast' \in Refusals
       /\ app = "client" /\ modal = "newTrip" =>
            \A input \in FewOrSameClientInputs :
                handleCreateNewTripClientOf(input) =>
                        /\ requests' = requests
                        /\ UNCHANGED <<currentTrip, currentTripId, members, expenses>>
                        /\ toast' \in Refusals
      ]_vars

\* The settings of a trip with expenses were saved with a name twice, and
\* refused.
C17_Witness ==
    /\ app = "file"
    /\ modal = "settings"
    /\ toast = "Member names must be unique"
    /\ io = "none"
    /\ Len(members) >= MinMembers
    /\ Len(expenses) > 0

\* C18: the engine does not write to what it reads.  No step of
\* calculateSettlements, the call of calculateBalances it starts with
\* included, changes the member list or an expense; the matching works on
\* its own copies of the amounts, so the balance mapping stays as computed,
\* and calculateBalances called after calculateSettlements has returned
\* gives that same mapping again.
C18_InputsUntouched ==
    [][/\ members' = members
       /\ expenses' = expenses
       /\ pc # "start" => balances' = balances
       /\ pc' = "done" => calculateBalances(members', expenses') = balances'
      ]_vars

\* calculateSettlements has returned after matching a debtor and a creditor
\* more than once.
C18_Witness ==
    /\ pc = "done"
    /\ Len(settlements) > 1
    /\ Len(expenses) > 1
    /\ calculateBalances(members, expenses) = balances

\* C19: in the client a trip id becomes current, and the main app gets
\* shown, only when handleVerifyTrip resumes on an accepted verify request
\* for that trip, or handleCreateNewTrip on an accepted create request; a
\* verify request carries the trip picked, the phone logged in and the PIN
\* typed; and a refused verify request, or an empty PIN, leaves currentTrip,
\* currentTripId and currentUserIsAdmin as they were.  (The trip object held
\* is besides that only replaced by the trip read again after a save of the
\* settings, under the id that was current when it was asked for.)
C19_AccessByPin ==
    [][app = "client" =>
        /\ (\/ currentTripId' # currentTripId /\ currentTripId' # Null
            \/ screen' = "app" /\ screen # "app") =>
               \E request \in requests, admin \in BOOLEAN :
                   \/ /\ handleVerifyTripAwaitOf(request, TRUE, admin)
                      /\ request.pin # ""
                      /\ currentTripId' = request.tripId
                      /\ currentTrip' = request.tripId
                   \/ /\ handleCreateNewTripAwaitOf(request, TRUE, admin)
                      /\ currentTrip' = currentTripId'
        /\ (currentTrip' # currentTrip /\ currentTrip' # Null /\ currentTrip' # currentTripId') =>
               \E request \in requests \ requests' :
                   request.kind = "get" /\ request.tripId = currentTrip'
        /\ \A request \in requests' \ requests :
               /\ request.kind = "get" => request.tripId = currentTripId
               /\ request.kind = "verify" =>
                      /\ request.tripId = pendingTripId
                      /\ request.phone = loggedInPhone
                      /\ request.pin \in {Strip(text) : text \in PinInputs} \ {""}
        /\ \A text \in PinInputs :
               handleVerifyTripOf(text) =>
                   /\ UNCHANGED <<currentTrip, currentTripId, currentUserIsAdmin, screen>>
                   /\ Strip(text) = "" => requests' = requests
                   /\ requests' # requests =>
                          requests' = requests \cup
                              {Request("verify", pendingTripId, loggedInPhone, Strip(text),
                                       <<>>, NoExpense)}
        /\ \A request \in requests, admin \in BOOLEAN :
               handleVerifyTripAwaitOf(request, FALSE, admin) =>
                   UNCHANGED <<currentTrip, currentTripId, currentUserIsAdmin, screen>>
      ]_vars

\* A listed trip was opened by its PIN: the answer to the verify request
\* made it the current trip and closed the PIN form.
C19_Witness ==
    /\ app = "client"
    /\ screen = "app"
    /\ currentTrip \in TripIds
    /\ currentTripId = currentTrip
    /\ pendingTripId = Null
    /\ modal = "none"
    /\ loggedInPhone # Null
    /\ toast = "none"
    /\ requests = {}

\* C20: in the client, handleSaveSettings called while currentUserIsAdmin
\* is false sends no request and leaves currentTrip, currentTripId, the
\* members, the expenses and the admin flag as they were, whatever the form
\* holds and whatever the answer to the confirmation; it only shows
\* "Admin access required".
C20_AdminOnly ==
    [][app = "client" /\ modal = "settings" /\ ~currentUserIsAdmin =>
       \A input \in ClientTripFormInputs, confirmed \in BOOLEAN :
           handleSaveSettingsClientOf(input, confirmed) =>
               /\ requests' = requests
               /\ UNCHANGED <<currentTrip, currentTripId, currentUserIsAdmin, members,
                              expenses, screen, modal>>
               /\ toast' = "Admin access required"
      ]_vars

\* A member who is not the admin submitted the settings form of an open
\* trip and was refused.
C20_Witness ==
    /\ app = "client"
    /\ screen = "app"
    /\ modal = "settings"
    /\ currentTrip # Null
    /\ currentTripId = currentTrip
    /\ ~currentUserIsAdmin
    /\ toast = "Admin access required"
    /\ requests = {}
    /\ Len(members) >= MinMembersClient

(***************************************************************************)
(* C21  Termination.  The engine is a sequential function: once its loop   *)
(* is entered, the next iteration, or the return, is eventually taken.     *)
(***************************************************************************)
\* The trips of this specification: all the members; up to MaxExpenses
\* expenses of 0.03, 100.00 or 120.00, paid by the first member, the second or a
\* non-member, split among everybody but the first member, or between the
\* last member and a non-member.
LoopExpenseDomain(ms) ==
    [amount : {c * Scale : c \in {3, 10000, 12000}},
     paidBy : {ms[1], ms[2], Foreign},
     splitBetween : {Tail(ms), <<ms[Len(ms)], Foreign>>}]

InitTerminates ==
    /\ members = SubSeq(Roster, 1, MaxMembers)
    /\ expenses \in UNION {[1..n -> LoopExpenseDomain(members)] : n \in 0..MaxExpenses}
    /\ balances = [m \in Range(members) |-> 0]
    /\ debtors = <<>>
    /\ creditors = <<>>
    /\ i = 0
    /\ j = 0
    /\ settlements = <<>>
    /\ pc = "start"
    /\ EngineOnly

SpecTerminates == InitTerminates /\ [][Next]_vars /\ WF_vars(Match \/ Return)

\* C21: the loop of calculateSettlements, once entered, is left and the
\* function returns; every iteration of the
\* loop advances the debtor cursor or the creditor cursor by one (and never
\* moves one back), the cursors never pass the ends of the lists by more
\* than the one step that ends the loop, and once a cursor is at the end of
\* its list the next step is the return, with the settlements as they are.
C21_Terminates ==
    /\ (pc = "loop") ~> (pc = "done")
    /\ [][/\ pc = "loop" /\ pc' = "loop" =>
                /\ i' \in {i, i + 1}
                /\ j' \in {j, j + 1}
                /\ i' + j' > i + j
                /\ i' <= Len(debtors)
                /\ j' <= Len(creditors)
          /\ pc = "loop" /\ (i >= Len(debtors) \/ j >= Len(creditors)) =>
                /\ pc' = "done"
                /\ settlements' = settlements
                /\ i' = i /\ j' = j
         ]_vars

\* The call returned after a loop of at least three iterations in which the
\* debtor cursor reached the end while a creditor was left.
C21_Witness ==
    /\ pc = "done"
    /\ i >= 3
    /\ i = Len(debtors)
    /\ j < Len(creditors)
    /\ Len(settlements) >= 3

(***************************************************************************)
(* C22  Largest first, ties in the order of the balance mapping.           *)
(***************************************************************************)
PositionIn(list, name) == CHOOSE k \in 1..Len(list) : list[k].name = name

MemberPosition(name) == CHOOSE k \in 1..Len(members) : members[k] = name

\* The entries of a list stand in non-increasing order of what the balance
\* mapping holds for them, equal ones in the order of the mapping.
LargestFirst(list) ==
    \A k, l \in 1..Len(list) :
        k < l =>
            LET a == Abs(balances[list[k].name])
                b == Abs(balances[list[l].name])
            IN \/ a > b
               \/ a = b /\ MemberPosition(list[k].name) < MemberPosition(list[l].name)

\* C22: from the sorts on, the debtors are exactly the members with a balance
\* below -0.01 and the creditors those with a balance above 0.01, each list
\* largest first with equal amounts in the order of the balance mapping; the
\* first settlement is from the first debtor to the first creditor; and along
\* the settlements neither the debtor's nor the creditor's place in its list
\* ever goes back, nor lies beyond the cursor.
C22_LargestFirst ==
    pc \in {"loop", "done"} =>
        /\ {debtors[k].name : k \in 1..Len(debtors)} =
               {m \in Range(members) : balances[m] < -Cent}
        /\ {creditors[k].name : k \in 1..Len(creditors)} =
               {m \in Range(members) : balances[m] > Cent}
        /\ LargestFirst(debtors)
        /\ LargestFirst(creditors)
        /\ (debtors # <<>> /\ creditors # <<>> /\ i + j > 0) =>
               /\ settlements # <<>>
               /\ settlements[1].from = debtors[1].name
               /\ settlements[1].to = creditors[1].name
        /\ \A k, l \in 1..Len(settlements) :
               k < l =>
                  /\ PositionIn(debtors, settlements[k].from)
                        <= PositionIn(debtors, settlements[l].from)
                  /\ PositionIn(creditors, settlements[k].to)
                        <= PositionIn(creditors, settlements[l].to)
        /\ \A k \in 1..Len(settlements) :
               /\ PositionIn(debtors, settlements[k].from) <= Min(i + 1, Len(debtors))
               /\ PositionIn(creditors, settlements[k].to) <= Min(j + 1, Len(creditors))

\* Two debtors of the same debt, the later member listed second, both paid
\* to a creditor who received from the earlier one first.
C22_Witness ==
    /\ pc = "done"
    /\ Len(settlements) >= 3
    /\ \E k \in 1..(Len(debtors) - 1) :
           /\ balances[debtors[k].name] = balances[debtors[k + 1].name]
           /\ \E a, b \in 1..Len(settlements) :
                  /\ a < b
                  /\ settlements[a].from = debtors[k].name
                  /\ settlements[b].from = debtors[k + 1].name

(***************************************************************************)
(* C23  The cursor advance rule.                                           *)
(***************************************************************************)
\* C23: in every iteration of the loop the debtor cursor advances, by one,
\* exactly when what remains of the current debtor is below 0.01, and the
\* creditor cursor exactly when what remains of the current creditor is
\* below 0.01; when the two had the same amount left, both advance; and a
\* settlement that is added names the members at the cursors, never a
\* member a cursor has passed.
C23_CursorAdvance ==
    [][/\ pc = "loop" /\ pc' = "loop" =>
            /\ i' = (IF debtors'[i + 1].amount < Cent THEN i + 1 ELSE i)
            /\ j' = (IF creditors'[j + 1].amount < Cent THEN j + 1 ELSE j)
            /\ debtors[i + 1].amount = creditors[j + 1].amount =>
                   i' = i + 1 /\ j' = j + 1
       /\ settlements' # settlements =>
            /\ Len(settlements') = Len(settlements) + 1
            /\ SubSeq(settlements', 1, Len(settlements)) = settlements
            /\ settlements'[Len(settlements')].from = debtors[i + 1].name
            /\ settlements'[Len(settlements')].to = creditors[j + 1].name
            /\ settlements'[Len(settlements')].from \notin {debtors[k].name : k \in 1..i}
            /\ settlements'[Len(settlements')].to \notin {creditors[k].name : k \in 1..j}
      ]_vars

\* The loop ended with both lists used up, after at least two settlements
\* and at least one iteration in which both cursors moved at once (there
\* are more cursor moves than iterations that added a settlement, plus one).
C23_Witness ==
    /\ pc = "done"
    /\ i = Len(debtors)
    /\ j = Len(creditors)
    /\ i >= 2
    /\ j >= 2
    /\ i + j > Len(settlements) + 1
    /\ Len(settlements) >= 2

(***************************************************************************)
(* C24  A payer who is no member.  The values of the mapping are added up  *)
(* as JavaScript adds them, in the order of its keys: the members, then a  *)
(* key made for an inherited name.                                         *)
(***************************************************************************)
\* a + b of JavaScript for values of the mapping.
Add(a, b) ==
    IF IsNumber(a) /\ IsNumber(b) THEN NumberAdd(a, b)
    ELSE IF a \in {Function, String} \/ b \in {Function, String} THEN String
    ELSE NaN

KeysOf(ms, bal) == ms \o (IF Inherited \in DOMAIN bal /\ Inherited \notin Range(ms)
                          THEN <<Inherited>> ELSE <<>>)

RECURSIVE SumOfValues(_, _)
SumOfValues(bal, keys) ==
    IF keys = <<>> THEN Zero
    ELSE Add(SumOfValues(bal, SubSeq(keys, 1, Len(keys) - 1)), bal[keys[Len(keys)]])

\* The amounts of the expenses whose payer is no member, added up.
RECURSIVE PaidByNonMembers(_, _)
PaidByNonMembers(ms, exps) ==
    IF exps = <<>> THEN Zero
    ELSE LET rest == PaidByNonMembers(ms, SubSeq(exps, 1, Len(exps) - 1))
             last == exps[Len(exps)]
         IN IF last.paidBy \in Range(ms) THEN rest ELSE NumberAdd(rest, AmountOf(last))

NumberAbs(x) == [x EXCEPT !.neg = FALSE]

\* 1e-9
Tolerance ==
    NumberDivide(NumberDivide(NumberDivide(NumberDivide(NumberDivide(
        NumberOf(1), 100), 100), 100), 100), 10)

\* C24 (the claim): when every splitBetween names members only and some
\* payer is no member, the values of the mapping calculateBalances returns
\* add up to minus the amounts those payers paid (within 1e-9), which is not
\* zero.  (The code makes a string entry for a payer whose name every object
\* inherits a property of, and the sum is then no number.)
C24_NonMemberPayer ==
    (/\ pc = "balances"
     /\ \A k \in 1..Len(expenses) : Range(expenses[k].splitBetween) \subseteq Range(members)
     /\ \E k \in 1..Len(expenses) : expenses[k].paidBy \notin Range(members)) =>
        LET sum == SumOfValues(balances, KeysOf(members, balances))
            paid == PaidByNonMembers(members, expenses)
        IN /\ IsNumber(sum)
           /\ NumberLess(NumberAbs(NumberAdd(sum, paid)), Tolerance)
           /\ NumberLess(Tolerance, NumberAbs(sum))

(***************************************************************************)
(* C25  Changing the members clears the expenses.                          *)
(***************************************************************************)
\* The settings form passes the checks of the name and of the members.
PassesChecks(input) ==
    /\ Strip(input.tripName) # ""
    /\ ~RejectsMembers(NamesOf(input.rows), MinMembers)

\* C25 (the claim): in the file-backed app, when handleSaveSettings is given
\* a form that passes its checks, then with a set of members other than the
\* current one and expenses present it empties the expense list if the user
\* confirms, and leaves name, currency, members and expenses as they were
\* and writes nothing if the user declines; with the same set of members it
\* keeps the expense list.  (The code compares the sorted lists of names, so
\* that taking out a name the trip file lists twice counts as a change.)
C25_ChangedMembersClear ==
    [][app = "file" /\ modal = "settings" =>
       \A input \in TripFormInputs, confirmed \in BOOLEAN :
           handleSaveSettingsOf(input, confirmed) /\ PassesChecks(input) =>
               LET different == Range(NamesOf(input.rows)) # Range(members)
               IN /\ (different /\ Len(expenses) > 0 /\ confirmed) =>
                         /\ expenses' = <<>>
                         /\ members' = NamesOf(input.rows)
                  /\ (different /\ Len(expenses) > 0 /\ ~confirmed) =>
                         /\ UNCHANGED <<tripName, currency, members, expenses>>
                         /\ io' = "none"
                  /\ ~different => expenses' = expenses
      ]_vars

(***************************************************************************)
(* C26  Expenses only name current members.  The file-backed app with the  *)
(* trips made through the new-trip form only: no trip file is opened.      *)
(***************************************************************************)
NextCreated ==
    \/ openNewTripModal \/ closeNewTripModal \/ handleCreateNewTrip
    \/ backToTripSelector
    \/ openExpenseModal \/ closeExpenseModal \/ handleAddExpense \/ deleteExpense
    \/ openSettingsModal \/ closeSettingsModal \/ handleSaveSettings

SpecCreated == InitFile /\ [][NextCreated]_vars

C27_EnginePrecondition ==
    app = "file" =>
        \A k \in 1..Len(expenses) :
            /\ expenses[k].amount > 0
            /\ expenses[k].splitBetween # <<>>

(***************************************************************************)
(* C28  A bound on the number of settlements.                              *)
(***************************************************************************)
\* The members with a balance below -0.01, and those with one above 0.01.
DebtorsOf(bal) == {m \in DOMAIN bal : bal[m] < -Cent}

CreditorsOf(bal) == {m \in DOMAIN bal : bal[m] > Cent}

\* C28: with d members below -0.01 and c members above 0.01 in the balance
\* mapping, calculateSettlements has at no point more than d + c - 1
\* settlements when d and c are both positive, and none when d = 0 or c = 0.
C28_SettlementBound ==
    pc \in {"loop", "done"} =>
        LET d == Cardinality(DebtorsOf(balances))
            c == Cardinality(CreditorsOf(balances))
        IN IF d = 0 \/ c = 0
           THEN settlements = <<>>
           ELSE Len(settlements) <= d + c - 1

\* The bound is met: two or more debtors and two or more creditors, and
\* one settlement fewer than there are of them together.
C28_Witness ==
    /\ pc = "done"
    /\ Cardinality(DebtorsOf(balances)) >= 2
    /\ Cardinality(CreditorsOf(balances)) >= 2
    /\ Len(settlements) = Cardinality(DebtorsOf(balances)) + Cardinality(CreditorsOf(balances)) - 1

(***************************************************************************)
(* C29  No over-payment.  What a member has been matched for is what the   *)
(* member started with less what remains; a settlement records it rounded  *)
(* to the cent.                                                            *)
(***************************************************************************)
\* The settlements that name m as from (to), and their amounts added up.
RECURSIVE SettledFrom(_, _)
SettledFrom(setts, m) ==
    IF setts = <<>> THEN 0
    ELSE (IF Head(setts).from = m THEN Head(setts).amount ELSE 0) + SettledFrom(Tail(setts), m)

RECURSIVE SettledTo(_, _)
SettledTo(setts, m) ==
    IF setts = <<>> THEN 0
    ELSE (IF Head(setts).to = m THEN Head(setts).amount ELSE 0) + SettledTo(Tail(setts), m)

CountFrom(setts, m) == Cardinality({k \in 1..Len(setts) : setts[k].from = m})

CountTo(setts, m) == Cardinality({k \in 1..Len(setts) : setts[k].to = m})

\* C29: from the sorts on, what remains of every debtor and of every
\* creditor is never below zero and never above what the balance mapping
\* holds for the member, so that what has been matched for a member (the
\* difference of the two) is never more than the original debt or credit;
\* and the settlements of a member, which are the matched amounts rounded to
\* the cent, add up to no more than what was matched plus half a cent each.
C29_NoOverPayment ==
    pc \in {"loop", "done"} =>
        /\ \A k \in 1..Len(debtors) :
               LET m == debtors[k].name
                   matched == -balances[m] - debtors[k].amount
               IN /\ debtors[k].amount >= 0
                  /\ matched >= 0
                  /\ matched <= -balances[m]
                  /\ 2 * SettledFrom(settlements, m) <= 2 * matched + CountFrom(settlements, m) * Cent
        /\ \A k \in 1..Len(creditors) :
               LET m == creditors[k].name
                   matched == balances[m] - creditors[k].amount
               IN /\ creditors[k].amount >= 0
                  /\ matched >= 0
                  /\ matched <= balances[m]
                  /\ 2 * SettledTo(settlements, m) <= 2 * matched + CountTo(settlements, m) * Cent

\* The loop ended with a creditor paid in part by two debtors, each of them
\* paid up.
C29_Witness ==
    /\ pc = "done"
    /\ \E k \in 1..Len(creditors) :
           /\ creditors[k].amount > 0
           /\ creditors[k].amount < balances[creditors[k].name]
           /\ CountTo(settlements, creditors[k].name) >= 2
    /\ \A k \in 1..Len(debtors) : debtors[k].amount = 0
    /\ Len(debtors) >= 2

(***************************************************************************)
(* C30  No trip is open while logged out.                                  *)
(***************************************************************************)
\* C30 (the claim): in every state of the client, whatever the order in
\* which handleLogout and requests still in flight are resumed, no phone
\* logged in means no current trip: loggedInPhone = null implies
\* currentTrip = null and currentTripId = null.  (A verify or create request
\* answered after the logout opens its trip all the same.)
C30_NoTripLoggedOut ==
    (app = "client" /\ loggedInPhone = Null) =>
        /\ currentTrip = Null
        /\ currentTripId = Null

====
